---- MODULE Spec2Model ----
(***************************************************************************)
(* A model of bundeck's plugin execution path.                             *)
(*                                                                         *)
(*   Runner (internal/plugin): Run(id, code) writes <tempDir>/<id>.ts,     *)
(*   runs `bun run <file>`, waits for it, removes the file (deferred) and  *)
(*   returns the combined output or an error.                              *)
(*                                                                         *)
(*   SortablePluginCard (web/src/components/plugins/plugin-card.tsx): the  *)
(*   continuous-run controller of one card, its interval timer, and the    *)
(*   run requests it sends to Handlers.RunPlugin (internal/api).           *)
(*                                                                         *)
(*   Handlers.RunPlugin (internal/api/handlers.go) over the PluginStore    *)
(*   (internal/db): the id is parsed, the plugin looked up, its code run.  *)
(***************************************************************************)
EXTENDS Integers, Sequences, FiniteSets, Bags, TLC

\* ------------------------------------------------------------------ bounds

\* Number of Run invocations one behaviour holds (each slot is one call).
MaxRuns == 2

Procs == 1..MaxRuns

\* Number of NewRunner calls one behaviour holds.
MaxNew == 2

\* Number of run requests (runPlugin calls) in flight at one time.
MaxReqs == 3

\* Number of interval timers armed at one time.
MaxTimers == 2

\* Number of run requests the HTTP server holds at one time.
MaxHttpReqs == 2

\* The cards of the page; card c shows the plugin with id c.
Cards == {1, 2}

\* Plugin ids used as Run's first argument.
PluginIds == {1, 2}

\* Statements of a script: console.log("A"), console.log("B"), and an
\* expression that throws (console.log(undefined.property)).
Stmts == {"A", "B", "throw"}

\* The code bodies handed to Run.
Codes == {<<"A", "B">>, <<"B">>, <<"throw">>}

\* ------------------------------------------------------------------ state

VARIABLES
    disk,      \* path -> [exists, data]: the files of the scratch directory
    pc,        \* invocation -> position inside Run
    rid,       \* invocation -> Run's argument id
    rcode,     \* invocation -> Run's argument code
    childSrc,  \* invocation -> what the bun process read from its file argument
    cmdOut,    \* invocation -> output returned by cmd.CombinedOutput()
    cmdErr,    \* invocation -> err returned by cmd.CombinedOutput()
    written,   \* invocation -> os.WriteFile returned nil
    nStart,    \* invocation -> number of cmd.CombinedOutput() calls
    nProc,     \* invocation -> number of bun processes started
    ret,       \* invocation -> the (string, error) pair Run returns
    tempDirEntry, \* what os.TempDir()/bundeck-plugins is: "absent", "dir", "file"
    runner,    \* the (*Runner, error) pair of the last NewRunner call
    nNew,      \* number of NewRunner calls made
    isEditMode,  \* HomeComponent: useState(false)
    plugin,      \* card -> the plugin prop [id, run_continuously, interval_seconds]
    mounted,     \* card -> the component instance is mounted
    isRunning,   \* card -> useState(false), the value the next render will see
    rIsRunning,  \* card -> isRunning as the closures of the last render hold it
    intervalRef, \* card -> intervalRef.current, 0 for null
    result,      \* card -> useState(null): the text shown
    timer,       \* timer id -> [armed, card, period, elapsed] (window timers)
    inflight,    \* bag of the run requests in flight; of the cards:
                 \*   [state, card, pid, cont, byTimer, alive, resp]
                 \* and as the HTTP server holds them:
                 \*   [state, param, id, code, nRun, run, resp]
    inEvent,     \* the card whose click handlers run in the current event, or 0
    store,       \* PluginStore: id -> the row of the plugins table, or NoRow
    settingsFile, \* what settings.json of the working directory is:
                  \*   [kind, readable, writable, content]
    loaded,      \* [calls, via, nil, Port]: the number of LoadSettings calls, the
                 \*   return statement the last one took and the *Settings it returned
    schema,      \* the committed database: [columns, versions, log], the columns
                 \*   of the plugins table ({} for no table), the rows of
                 \*   schema_version, and the migrations committed, in order
    tx,          \* [open, work]: InitDB's transaction and the database as it sees it
    initdb,      \* [pc, calls, version, started, err, prevErr]: the InitDB call
    nextId,      \* sqlite_sequence of plugins: the id the next INSERT gets
    lastCall,    \* the last call of a store handler: [n, handler, param, req, id,
                 \*   storeErr, status, error, variable]
    trayPc,      \* menu item -> position of the goroutine initTray started for it
    clicks,      \* menu item -> number of clicks the user made on it
    opened       \* menu item -> number of times its action was run

runVars == <<disk, pc, rid, rcode, childSrc, cmdOut, cmdErr, written, nStart, nProc, ret,
             tempDirEntry, runner, nNew>>

cardVars == <<isEditMode, plugin, mounted, isRunning, rIsRunning, intervalRef, result,
              timer, inflight, inEvent>>

dbVars == <<store>>

hostVars == <<settingsFile, loaded, schema, tx, initdb, nextId, lastCall,
              trayPc, clicks, opened>>

vars == <<disk, pc, rid, rcode, childSrc, cmdOut, cmdErr, written, nStart, nProc, ret,
          tempDirEntry, runner, nNew,
          isEditMode, plugin, mounted, isRunning, rIsRunning, intervalRef, result,
          timer, inflight, inEvent, store,
          settingsFile, loaded, schema, tx, initdb, nextId, lastCall,
          trayPc, clicks, opened>>

\* ------------------------------------------------------------------ files

\* filepath.Join(r.tempDir, fmt.Sprintf("%d.ts", id)), all ids on one path:
\* the bug of a file name that does not depend on the id.
TempFileShared(id) == <<"bundeck-plugins", 1, "ts">>

\* filepath.Join(r.tempDir, fmt.Sprintf("%d.ts", id))
TempFile(id) == <<"bundeck-plugins", id, "ts">>

Paths == {<<"bundeck-plugins", i, "ts">> : i \in PluginIds}

NoFile == [exists |-> FALSE, data |-> <<>>]

File(data) == [exists |-> TRUE, data |-> data]

\* os.Remove(name): the file is gone afterwards (an absent file stays absent,
\* the error is dropped by the defer).
Remove(d, path) == [d EXCEPT ![path] = NoFile]

\* os.Mkdir(path): an existing entry is an error.
Mkdir(entry) ==
    IF entry = "absent" THEN [entry |-> "dir", err |-> ""]
    ELSE [entry |-> entry, err |-> "file exists"]

\* os.MkdirAll(path, 0755): creates the directory (and its parents); a
\* directory that is already there is no error, a file in its place is.
MkdirAll(entry) ==
    IF entry = "file" THEN [entry |-> entry, err |-> "not a directory"]
    ELSE [entry |-> "dir", err |-> ""]

\* No NewRunner call has been made: there is no Runner.
NoRunner == [tempDir |-> <<>>, err |-> "no runner"]

\* NewRunner's results for the error err of os.MkdirAll:
\* nil, fmt.Errorf("failed to create temp directory: %w", err), or
\* &Runner{tempDir: filepath.Join(os.TempDir(), "bundeck-plugins")}, nil.
NewRunnerResult(err) ==
    IF err # "" THEN [tempDir |-> <<>>, err |-> "failed to create temp directory"]
    ELSE [tempDir |-> <<"bundeck-plugins">>, err |-> ""]

\* ------------------------------------------------------------ interpreter

\* What `bun run <file>` emits on its combined stdout+stderr and its exit
\* code, for a file holding the statements src: every console.log emits its
\* text and a newline, a throw emits the error and ends the process with 1.
RECURSIVE Exec(_, _)
Exec(src, out) ==
    IF src = <<>> THEN [out |-> out, exit |-> 0]
    ELSE IF Head(src) = "throw"
         THEN [out |-> out \o <<"TypeError">>, exit |-> 1]
         ELSE Exec(Tail(src), out \o <<Head(src), "\n">>)

\* bun on a file: a missing file is a "Module not found" error, exit 1.
Bun(file) ==
    IF file.exists THEN Exec(file.data, <<>>)
    ELSE [out |-> <<"ModuleNotFound">>, exit |-> 1]

\* ------------------------------------------------------------------ errors

NilErr == [kind |-> "nil", cause |-> "", output |-> <<>>]

\* fmt.Errorf("failed to write temp file: %w", err)
WriteErr(err) == [kind |-> "failed to write temp file", cause |-> err, output |-> <<>>]

\* fmt.Errorf("failed to run plugin: %w\nOutput: %s", err, string(output))
RunErr(err, output) == [kind |-> "failed to run plugin", cause |-> err, output |-> output]

\* strings.TrimSpace on the output tokens (leading and trailing newlines).
RECURSIVE TrimSpace(_)
TrimSpace(s) ==
    IF s = <<>> THEN s
    ELSE IF Head(s) = "\n" THEN TrimSpace(Tail(s))
    ELSE IF s[Len(s)] = "\n" THEN TrimSpace(SubSeq(s, 1, Len(s) - 1))
    ELSE s

\* The bug of handing the output back as a value also when the command failed.
RunResultOutputOnError(output, err) == [text |-> output, err |-> NilErr]

\* The bug of trimming the output before returning it.
RunResultTrimmed(output, err) ==
    IF err # ""
    THEN [text |-> <<>>, err |-> RunErr(err, output)]
    ELSE [text |-> TrimSpace(output), err |-> NilErr]

\* Run, lines 35-40: the pair returned after cmd.CombinedOutput().
RunResult(output, err) ==
    IF err # ""
    THEN [text |-> <<>>, err |-> RunErr(err, output)]
    ELSE [text |-> output, err |-> NilErr]

\* The bug of going on to the command although os.WriteFile failed.
AfterWriteIgnoringErr(err) == "start"

\* Run, lines 28-31: where Run goes after os.WriteFile returned err.
AfterWrite(err) == IF err # "" THEN "return" ELSE "start"

\* The bug of returning after the command without the deferred os.Remove.
AfterCmdSkipRemove(err, n) == "return"

\* The bug of running the command again when it failed (a retry).
AfterCmdRetry(err, n) == IF err # "" /\ n < 2 THEN "start" ELSE "defer"

\* Run, lines 35-40: after cmd.CombinedOutput() the function returns, which
\* runs the deferred os.Remove; the command is not run again.
AfterCmd(err, n) == "defer"

\* ------------------------------------------------------------------ cards

\* The plugin a card can show: continuous every 1 s or 2 s, continuous with
\* interval 0, or not continuous.
PluginConfig(id) ==
    {[id |-> id, run_continuously |-> TRUE, interval_seconds |-> 1],
     [id |-> id, run_continuously |-> TRUE, interval_seconds |-> 2],
     [id |-> id, run_continuously |-> TRUE, interval_seconds |-> 0],
     [id |-> id, run_continuously |-> FALSE, interval_seconds |-> 0]}

\* The code the store holds for a plugin when a run request looks it up.
StoredCodes == {<<"B">>, <<"throw">>}

NoBody == [kind |-> "none", text |-> <<>>, error |-> NilErr]

\* c.SendString(result)
TextBody(text) == [kind |-> "text", text |-> text, error |-> NilErr]

\* c.JSON(fiber.Map{"error": err.Error()})
JsonError(err) == [kind |-> "json", text |-> <<>>, error |-> err]

NoResp == [status |-> 0, body |-> NoBody]

NoTimer == [armed |-> FALSE, card |-> 0, period |-> 0, elapsed |-> 0]

\* Milliseconds per second: the factor of the setInterval delay, and the
\* step of the clock.
MsPerSecond == 1000

\* plugin.interval_seconds * 1000
IntervalMs(seconds) == seconds * MsPerSecond

\* The armed timers of the timer table tm that card c created.
ArmedTimers(tm, c) == {t \in 1..MaxTimers : tm[t].armed /\ tm[t].card = c}

\* The number of requests in the bag b that are in the set rs.
CountIn(b, rs) ==
    LET RECURSIVE Sum(_)
        Sum(S) == IF S = {} THEN 0
                  ELSE LET r == CHOOSE x \in S : TRUE
                       IN CopiesIn(r, b) + Sum(S \ {r})
    IN Sum(rs \cap BagToSet(b))

\* The run requests of card c in flight in the bag b, all and by its timers.
Issued(b, c) == CountIn(b, {r \in BagToSet(b) : r.card = c})

IssuedByTimer(b, c) == CountIn(b, {r \in BagToSet(b) : r.card = c /\ r.byTimer})

\* Values of the card variables of a page on which nothing has happened.
InitCardState ==
    /\ isEditMode = FALSE
    /\ isRunning = [c \in Cards |-> FALSE]
    /\ rIsRunning = [c \in Cards |-> FALSE]
    /\ intervalRef = [c \in Cards |-> 0]
    /\ result = [c \in Cards |-> NoBody]
    /\ timer = [t \in (1..MaxTimers) |-> NoTimer]
    /\ inflight = EmptyBag
    /\ inEvent = 0

\* The page as the Runner's own specification holds it: not used.
InitCardsIdle ==
    /\ InitCardState
    /\ mounted = [c \in Cards |-> FALSE]
    /\ plugin = [c \in Cards |-> [id |-> c, run_continuously |-> FALSE, interval_seconds |-> 0]]

\* ------------------------------------------------------------------ store

\* No row of the plugins table has the id.
NoRow == [code |-> <<>>, run_continuously |-> FALSE, interval_seconds |-> -1]

\* The rows a plugin can be stored as (code, run_continuously,
\* interval_seconds of db.Plugin).
StoredRows ==
    {[code |-> <<"B">>, run_continuously |-> FALSE, interval_seconds |-> 0],
     [code |-> <<"throw">>, run_continuously |-> TRUE, interval_seconds |-> 1]}

\* sql.ErrNoRows
ErrNoRows == "sql: no rows in result set"

\* PluginStore.GetByID: the row and nil, or sql.ErrNoRows from Scan.
GetByID(st, id) ==
    IF id \in DOMAIN st /\ st[id] # NoRow
    THEN [plugin |-> st[id], err |-> ""]
    ELSE [plugin |-> NoRow, err |-> ErrNoRows]

\* The plugins table of a database holding a plugin under every id.
InitStore ==
    store = [id \in PluginIds |->
               [code |-> <<"B">>, run_continuously |-> FALSE, interval_seconds |-> 0]]

\* ------------------------------------------------------------------- host

\* LoadSettings has not been called.
NotLoaded == [calls |-> 0, via |-> "", nil |-> TRUE, Port |-> 0]

\* settings.json does not exist (the working directory lets it be created)
\* and LoadSettings has not been called.
InitSettingsIdle ==
    /\ settingsFile = [kind |-> "absent", readable |-> FALSE, writable |-> TRUE,
                       content |-> <<>>]
    /\ loaded = NotLoaded

\* var migrations: the statements, in order.
migrations == <<"CREATE TABLE IF NOT EXISTS plugins", "ADD COLUMN run_continuously",
                "ADD COLUMN interval_seconds">>

\* The plugins table as migration v1 creates it: its eight columns, as one.
BaseColumns == {"id .. updated_at"}

\* The database after the migrations 1..k were committed by InitDB.
MigratedTo(k) ==
    [columns |-> IF k = 0 THEN {}
                 ELSE BaseColumns \cup (IF k >= 2 THEN {"run_continuously"} ELSE {})
                                  \cup (IF k >= 3 THEN {"interval_seconds"} ELSE {}),
     versions |-> 1..k,
     log |-> [i \in 1..k |-> i]]

NoTx == [open |-> FALSE, work |-> MigratedTo(0)]

\* InitDB is not running and was never called.
InitDBIdle == [pc |-> "idle", calls |-> 0, version |-> 0, started |-> 0, err |-> "",
               prevErr |-> ""]

\* The database as main finds it after a successful InitDB.
InitSchemaIdle ==
    /\ schema = MigratedTo(Len(migrations))
    /\ tx = NoTx
    /\ initdb = InitDBIdle

\* The request of a call whose handler reads no template request.
NoReq == [templateId |-> ""]

\* The plugins table has given out the ids of PluginIds, and no store
\* handler has been called.
InitCrudIdle ==
    /\ nextId = Cardinality(PluginIds) + 1
    /\ lastCall = [n |-> 0, handler |-> "", param |-> <<>>, req |-> NoReq, id |-> 0,
                   storeErr |-> "", status |-> 0, error |-> "", variable |-> ""]

\* The items initTray adds to the menu: Open App, Show QR Code, Exit.
MenuItems == {"browser", "qr", "quit"}

\* initTray has started its three goroutines; nothing was clicked.
InitTray ==
    /\ trayPc = [item \in MenuItems |-> "go"]
    /\ clicks = [item \in MenuItems |-> 0]
    /\ opened = [item \in MenuItems |-> 0]

\* The parts of the host program that the plugin subsystem does not touch.
InitHost == InitSettingsIdle /\ InitSchemaIdle /\ InitCrudIdle /\ InitTray

\* ------------------------------------------------------------------ Init

NoRet == [text |-> <<>>, err |-> NilErr]

\* The state NewRunner leaves at service startup: the directory and a Runner.
InitRunner ==
    /\ tempDirEntry = "dir"
    /\ runner = NewRunnerResult("")
    /\ nNew = 1

InitInvocations ==
    /\ disk = [p \in Paths |-> NoFile]
    /\ pc = [p \in Procs |-> "idle"]
    /\ rid = [p \in Procs |-> 1]
    /\ rcode = [p \in Procs |-> <<>>]
    /\ childSrc = [p \in Procs |-> NoFile]
    /\ cmdOut = [p \in Procs |-> <<>>]
    /\ cmdErr = [p \in Procs |-> ""]
    /\ written = [p \in Procs |-> FALSE]
    /\ nStart = [p \in Procs |-> 0]
    /\ nProc = [p \in Procs |-> 0]
    /\ ret = [p \in Procs |-> NoRet]

InitRunState ==
    /\ InitRunner
    /\ InitInvocations

\* The scratch directory after NewRunner, no Run called yet.
InitRun == InitRunState /\ InitCardsIdle /\ InitStore /\ InitHost

\* ------------------------------------------------------------------ Run

\* A caller enters Run(id, code); invocation p is the p-th call made.
RunCall(p, id, code) ==
    /\ runner.err = ""
    /\ pc[p] = "idle"
    /\ \A q \in Procs : q < p => pc[q] # "idle"
    /\ pc' = [pc EXCEPT ![p] = "open"]
    /\ rid' = [rid EXCEPT ![p] = id]
    /\ rcode' = [rcode EXCEPT ![p] = code]
    /\ UNCHANGED <<disk, childSrc, cmdOut, cmdErr, written, nStart, nProc, ret>>
    /\ UNCHANGED <<cardVars, dbVars, tempDirEntry, runner, nNew, hostVars>>

\* os.WriteFile, first half: OpenFile(name, O_WRONLY|O_CREATE|O_TRUNC, perm)
\* succeeds and leaves an empty file.
WriteFileOpen(p) ==
    /\ pc[p] = "open"
    /\ tempDirEntry = "dir"
    /\ disk' = [disk EXCEPT ![TempFile(rid[p])] = File(<<>>)]
    /\ pc' = [pc EXCEPT ![p] = "write"]
    /\ UNCHANGED <<rid, rcode, childSrc, cmdOut, cmdErr, written, nStart, nProc, ret>>
    /\ UNCHANGED <<cardVars, dbVars, tempDirEntry, runner, nNew, hostVars>>

\* os.WriteFile fails in OpenFile (permission denied): nothing is created,
\* Run returns the wrapped error before the defer is registered.
WriteFileOpenFails(p) ==
    /\ pc[p] = "open"
    /\ pc' = [pc EXCEPT ![p] = AfterWrite("permission denied")]
    /\ ret' = [ret EXCEPT ![p] = [text |-> <<>>, err |-> WriteErr("permission denied")]]
    /\ UNCHANGED <<disk, rid, rcode, childSrc, cmdOut, cmdErr, written, nStart, nProc>>
    /\ UNCHANGED <<cardVars, dbVars, tempDirEntry, runner, nNew, hostVars>>

\* os.WriteFile, second half: f.Write(data) and f.Close() succeed.
WriteFileData(p) ==
    /\ pc[p] = "write"
    /\ disk' = [disk EXCEPT ![TempFile(rid[p])] = File(rcode[p])]
    /\ written' = [written EXCEPT ![p] = TRUE]
    /\ pc' = [pc EXCEPT ![p] = AfterWrite("")]
    /\ UNCHANGED <<rid, rcode, childSrc, cmdOut, cmdErr, nStart, nProc, ret>>
    /\ UNCHANGED <<cardVars, dbVars, tempDirEntry, runner, nNew, hostVars>>

\* os.WriteFile fails in f.Write (disk full): the file stays as OpenFile and
\* the failed write left it, Run returns before the defer is registered.
WriteFileDataFails(p) ==
    /\ pc[p] = "write"
    /\ pc' = [pc EXCEPT ![p] = AfterWrite("no space left on device")]
    /\ ret' = [ret EXCEPT ![p] = [text |-> <<>>, err |-> WriteErr("no space left on device")]]
    /\ UNCHANGED <<disk, rid, rcode, childSrc, cmdOut, cmdErr, written, nStart, nProc>>
    /\ UNCHANGED <<cardVars, dbVars, tempDirEntry, runner, nNew, hostVars>>

\* cmd.CombinedOutput(): exec starts the bun process.
CmdStart(p) ==
    /\ pc[p] = "start"
    /\ nStart' = [nStart EXCEPT ![p] = @ + 1]
    /\ nProc' = [nProc EXCEPT ![p] = @ + 1]
    /\ pc' = [pc EXCEPT ![p] = "child"]
    /\ UNCHANGED <<disk, rid, rcode, childSrc, cmdOut, cmdErr, written, ret>>
    /\ UNCHANGED <<cardVars, dbVars, tempDirEntry, runner, nNew, hostVars>>

\* cmd.CombinedOutput(): the process cannot be started (bun is not on PATH);
\* it returns no output and the start error.
CmdStartFails(p) ==
    /\ pc[p] = "start"
    /\ nStart' = [nStart EXCEPT ![p] = @ + 1]
    /\ cmdOut' = [cmdOut EXCEPT ![p] = <<>>]
    /\ cmdErr' = [cmdErr EXCEPT ![p] = "executable file not found"]
    /\ ret' = [ret EXCEPT ![p] = RunResult(<<>>, "executable file not found")]
    /\ pc' = [pc EXCEPT ![p] = AfterCmd("executable file not found", nStart'[p])]
    /\ UNCHANGED <<disk, rid, rcode, childSrc, written, nProc>>
    /\ UNCHANGED <<cardVars, dbVars, tempDirEntry, runner, nNew, hostVars>>

\* The bun process opens and reads the file named by its argument.
ChildRead(p) ==
    /\ pc[p] = "child"
    /\ childSrc' = [childSrc EXCEPT ![p] = disk[TempFile(rid[p])]]
    /\ pc' = [pc EXCEPT ![p] = "wait"]
    /\ UNCHANGED <<disk, rid, rcode, cmdOut, cmdErr, written, nStart, nProc, ret>>
    /\ UNCHANGED <<cardVars, dbVars, tempDirEntry, runner, nNew, hostVars>>

ExitErr(code) == IF code = 0 THEN "" ELSE "exit status 1"

\* The bun process exits; cmd.CombinedOutput() returns its output and, for a
\* non-zero exit code, an *exec.ExitError. Run evaluates its return statement.
CmdWait(p) ==
    /\ pc[p] = "wait"
    /\ LET r == Bun(childSrc[p])
           e == ExitErr(r.exit)
       IN /\ cmdOut' = [cmdOut EXCEPT ![p] = r.out]
          /\ cmdErr' = [cmdErr EXCEPT ![p] = e]
          /\ ret' = [ret EXCEPT ![p] = RunResult(r.out, e)]
          /\ pc' = [pc EXCEPT ![p] = AfterCmd(e, nStart[p])]
    /\ UNCHANGED <<disk, rid, rcode, childSrc, written, nStart, nProc>>
    /\ UNCHANGED <<cardVars, dbVars, tempDirEntry, runner, nNew, hostVars>>

\* defer os.Remove(tempFile)
DeferRemove(p) ==
    /\ pc[p] = "defer"
    /\ disk' = Remove(disk, TempFile(rid[p]))
    /\ pc' = [pc EXCEPT ![p] = "return"]
    /\ UNCHANGED <<rid, rcode, childSrc, cmdOut, cmdErr, written, nStart, nProc, ret>>
    /\ UNCHANGED <<cardVars, dbVars, tempDirEntry, runner, nNew, hostVars>>

\* Control is back in the caller with Run's results.
RunReturn(p) ==
    /\ pc[p] = "return"
    /\ pc' = [pc EXCEPT ![p] = "returned"]
    /\ UNCHANGED <<disk, rid, rcode, childSrc, cmdOut, cmdErr, written, nStart, nProc, ret>>
    /\ UNCHANGED <<cardVars, dbVars, tempDirEntry, runner, nNew, hostVars>>

NextRun ==
    \/ \E p \in Procs, id \in PluginIds, code \in Codes : RunCall(p, id, code)
    \/ \E p \in Procs : WriteFileOpen(p)
    \/ \E p \in Procs : WriteFileOpenFails(p)
    \/ \E p \in Procs : WriteFileData(p)
    \/ \E p \in Procs : WriteFileDataFails(p)
    \/ \E p \in Procs : CmdStart(p)
    \/ \E p \in Procs : CmdStartFails(p)
    \/ \E p \in Procs : ChildRead(p)
    \/ \E p \in Procs : CmdWait(p)
    \/ \E p \in Procs : DeferRemove(p)
    \/ \E p \in Procs : RunReturn(p)

SpecRunner == InitRun /\ [][NextRun]_vars

\* ------------------------------------------------------- service startup

\* The Run invocations of the startup specification.
StartupProcs == {1}

\* NewRunner()
NewRunner ==
    /\ nNew < MaxNew
    /\ LET m == MkdirAll(tempDirEntry)
       IN /\ tempDirEntry' = m.entry
          /\ runner' = NewRunnerResult(m.err)
    /\ nNew' = nNew + 1
    /\ UNCHANGED <<disk, pc, rid, rcode, childSrc, cmdOut, cmdErr, written, nStart, nProc, ret>>
    /\ UNCHANGED <<cardVars, dbVars, hostVars>>

\* Before the first NewRunner: the path is absent, a directory left by an
\* earlier run of the service, or a file.
InitStartup ==
    /\ tempDirEntry \in {"absent", "dir", "file"}
    /\ runner = NoRunner
    /\ nNew = 0
    /\ InitInvocations
    /\ InitCardsIdle
    /\ InitStore
    /\ InitHost

NextStartup ==
    \/ NewRunner
    \/ \E p \in StartupProcs, id \in PluginIds, code \in Codes : RunCall(p, id, code)
    \/ \E p \in StartupProcs : WriteFileOpen(p)
    \/ \E p \in StartupProcs : WriteFileOpenFails(p)
    \/ \E p \in StartupProcs : WriteFileData(p)
    \/ \E p \in StartupProcs : WriteFileDataFails(p)
    \/ \E p \in StartupProcs : CmdStart(p)
    \/ \E p \in StartupProcs : CmdStartFails(p)
    \/ \E p \in StartupProcs : ChildRead(p)
    \/ \E p \in StartupProcs : CmdWait(p)
    \/ \E p \in StartupProcs : DeferRemove(p)
    \/ \E p \in StartupProcs : RunReturn(p)

SpecStartup == InitStartup /\ [][NextStartup]_vars

\* ------------------------------------------------------- HTTP: RunPlugin

\* Runner.Run(id, code) with no other invocation interleaved and no failure of
\* the file system or of exec: what the handler gets back for `code`.
RunSequential(code) ==
    LET r == Bun(File(code)) IN RunResult(r.out, ExitErr(r.exit))

\* A handler that answers 200 with Run's text whatever Run returned.
RunPluginResponseAlwaysOK(r) == [status |-> 200, body |-> TextBody(r.text)]

\* Handlers.RunPlugin: the response for the pair Run returned. A Runner error
\* is StatusInternalServerError with the error text, else the text with 200.
RunPluginResponse(r) ==
    IF r.err # NilErr
    THEN [status |-> 500, body |-> JsonError(r.err)]
    ELSE [status |-> 200, body |-> TextBody(r.text)]

\* ------------------------------------------------------ SortablePluginCard

\* if (intervalRef.current) { window.clearInterval(intervalRef.current); ... }
ClearInterval(tm, id) == IF id # 0 THEN [tm EXCEPT ![id] = NoTimer] ELSE tm

\* runPlugin(plugin): the mutation sends POST /api/plugins/<id>/run.
RunPluginSend(c, cont, byTimer) ==
    /\ BagCardinality(inflight) < MaxReqs
    /\ inflight' = inflight (+) SetToBag({
                  [state |-> "sent", card |-> c, pid |-> plugin[c].id, cont |-> cont,
                   byTimer |-> byTimer, alive |-> mounted[c], resp |-> NoResp]})

\* The request r of the bag goes on as the request s.
Replace(r, s) == inflight' = (inflight (-) SetToBag({r})) (+) SetToBag({s})

\* The request r of the bag is settled: its promise has run its callback.
Settle(r) == inflight' = inflight (-) SetToBag({r})

\* The id setInterval returns: one that names no armed timer.
FreeTimers(tm) == {t \in 1..MaxTimers : ~tm[t].armed}

NewTimer(tm) == CHOOSE t \in FreeTimers(tm) : \A u \in FreeTimers(tm) : t <= u

\* stopContinuousRun clearing every timer of the window, not only its own.
StopContinuousRunAll(c) ==
    /\ timer' = [t \in (1..MaxTimers) |-> NoTimer]
    /\ intervalRef' = [intervalRef EXCEPT ![c] = 0]
    /\ isRunning' = [isRunning EXCEPT ![c] = FALSE]

\* stopContinuousRun without its window.clearInterval.
StopContinuousRunKeepTimer(c) ==
    /\ isRunning' = [isRunning EXCEPT ![c] = FALSE]
    /\ UNCHANGED <<timer, intervalRef>>

\* stopContinuousRun
StopContinuousRun(c) ==
    /\ timer' = ClearInterval(timer, intervalRef[c])
    /\ intervalRef' = [intervalRef EXCEPT ![c] = 0]
    /\ isRunning' = [isRunning EXCEPT ![c] = FALSE]

\* startContinuousRun without its "stop any existing interval first".
StartContinuousRunNoStop(c) ==
    IF rIsRunning[c] \/ ~plugin[c].run_continuously \/ plugin[c].interval_seconds <= 0
    THEN UNCHANGED <<timer, intervalRef, isRunning, inflight>>
    ELSE /\ FreeTimers(timer) # {}
         /\ RunPluginSend(c, TRUE, FALSE)
         /\ isRunning' = [isRunning EXCEPT ![c] = TRUE]
         /\ LET id == NewTimer(timer)
            IN /\ timer' = [timer EXCEPT ![id] =
                               [armed |-> TRUE, card |-> c,
                                period |-> IntervalMs(plugin[c].interval_seconds),
                                elapsed |-> 0]]
               /\ intervalRef' = [intervalRef EXCEPT ![c] = id]

\* startContinuousRun without its immediate runPlugin(plugin).
StartContinuousRunNoImmediate(c) ==
    IF rIsRunning[c] \/ ~plugin[c].run_continuously \/ plugin[c].interval_seconds <= 0
    THEN UNCHANGED <<timer, intervalRef, isRunning, inflight>>
    ELSE /\ UNCHANGED inflight
         /\ isRunning' = [isRunning EXCEPT ![c] = TRUE]
         /\ LET cleared == ClearInterval(timer, intervalRef[c])
                id == NewTimer(cleared)
            IN /\ timer' = [cleared EXCEPT ![id] =
                               [armed |-> TRUE, card |-> c,
                                period |-> IntervalMs(plugin[c].interval_seconds),
                                elapsed |-> 0]]
               /\ intervalRef' = [intervalRef EXCEPT ![c] = id]

\* startContinuousRun without the interval_seconds <= 0 part of its guard.
StartContinuousRunAnyInterval(c) ==
    IF rIsRunning[c] \/ ~plugin[c].run_continuously
    THEN UNCHANGED <<timer, intervalRef, isRunning, inflight>>
    ELSE /\ FreeTimers(ClearInterval(timer, intervalRef[c])) # {}
         /\ RunPluginSend(c, TRUE, FALSE)
         /\ isRunning' = [isRunning EXCEPT ![c] = TRUE]
         /\ LET cleared == ClearInterval(timer, intervalRef[c])
                id == NewTimer(cleared)
            IN /\ timer' = [cleared EXCEPT ![id] =
                               [armed |-> TRUE, card |-> c,
                                period |-> IntervalMs(plugin[c].interval_seconds),
                                elapsed |-> 0]]
               /\ intervalRef' = [intervalRef EXCEPT ![c] = id]

\* startContinuousRun without its setIsRunning(true).
StartContinuousRunNoSetRunning(c) ==
    IF rIsRunning[c] \/ ~plugin[c].run_continuously \/ plugin[c].interval_seconds <= 0
    THEN UNCHANGED <<timer, intervalRef, isRunning, inflight>>
    ELSE /\ FreeTimers(ClearInterval(timer, intervalRef[c])) # {}
         /\ RunPluginSend(c, TRUE, FALSE)
         /\ UNCHANGED isRunning
         /\ LET cleared == ClearInterval(timer, intervalRef[c])
                id == NewTimer(cleared)
            IN /\ timer' = [cleared EXCEPT ![id] =
                               [armed |-> TRUE, card |-> c,
                                period |-> IntervalMs(plugin[c].interval_seconds),
                                elapsed |-> 0]]
               /\ intervalRef' = [intervalRef EXCEPT ![c] = id]

\* startContinuousRun: the guard reads isRunning of the render that made the
\* callback; then stopContinuousRun(), runPlugin(plugin), setIsRunning(true)
\* and intervalRef.current = setInterval(..., interval_seconds * 1000).
StartContinuousRun(c) ==
    IF rIsRunning[c] \/ ~plugin[c].run_continuously \/ plugin[c].interval_seconds <= 0
    THEN UNCHANGED <<timer, intervalRef, isRunning, inflight>>
    ELSE /\ FreeTimers(ClearInterval(timer, intervalRef[c])) # {}
         /\ RunPluginSend(c, TRUE, FALSE)
         /\ isRunning' = [isRunning EXCEPT ![c] = TRUE]
         /\ LET cleared == ClearInterval(timer, intervalRef[c])
                id == NewTimer(cleared)
            IN /\ timer' = [cleared EXCEPT ![id] =
                               [armed |-> TRUE, card |-> c,
                                period |-> IntervalMs(plugin[c].interval_seconds),
                                elapsed |-> 0]]
               /\ intervalRef' = [intervalRef EXCEPT ![c] = id]

\* A render of card c: the closures get the current isRunning, and the
\* edit-mode effect stops a card that is running in edit mode.
RenderCard(c) ==
    IF isEditMode /\ isRunning[c]
    THEN /\ StopContinuousRun(c)
         /\ rIsRunning' = [rIsRunning EXCEPT ![c] = FALSE]
    ELSE /\ rIsRunning' = [rIsRunning EXCEPT ![c] = isRunning[c]]
         /\ UNCHANGED <<timer, intervalRef, isRunning>>

\* handleCardClick (onClick, or Enter/Space on the card). React renders after
\* the event's handlers have run; until then the handlers of this event see
\* the closures of the previous render.
HandleCardClick(c) ==
    /\ mounted[c]
    /\ inEvent \in {0, c}
    /\ inEvent' = c
    /\ IF isEditMode
       THEN UNCHANGED <<timer, intervalRef, isRunning, inflight>>
       ELSE IF plugin[c].run_continuously
            THEN IF rIsRunning[c]
                 THEN StopContinuousRun(c) /\ UNCHANGED <<inflight>>
                 ELSE StartContinuousRun(c)
            ELSE /\ RunPluginSend(c, FALSE, FALSE)
                 /\ UNCHANGED <<timer, intervalRef, isRunning>>
    /\ UNCHANGED <<isEditMode, plugin, mounted, rIsRunning, result>>
    /\ UNCHANGED <<runVars, dbVars, hostVars>>

\* The Stop button, rendered while !isEditMode && run_continuously && isRunning.
StopButton(c) ==
    /\ mounted[c]
    /\ inEvent = 0
    /\ ~isEditMode /\ plugin[c].run_continuously /\ rIsRunning[c]
    /\ inEvent' = c
    /\ StopContinuousRun(c)
    /\ UNCHANGED <<isEditMode, plugin, mounted, rIsRunning, result, inflight>>
    /\ UNCHANGED <<runVars, dbVars, hostVars>>

\* The render that ends a click event.
FlushSync ==
    /\ inEvent # 0
    /\ RenderCard(inEvent)
    /\ inEvent' = 0
    /\ UNCHANGED <<isEditMode, plugin, mounted, result, inflight>>
    /\ UNCHANGED <<runVars, dbVars, hostVars>>

\* The render scheduled by a state update made outside an event handler.
Render(c) ==
    /\ inEvent = 0
    /\ mounted[c]
    /\ rIsRunning[c] # isRunning[c]
    /\ RenderCard(c)
    /\ UNCHANGED <<isEditMode, plugin, mounted, result, inflight, inEvent>>
    /\ UNCHANGED <<runVars, dbVars, hostVars>>

\* The Run button of a card in edit mode (disabled while isPending).
RunButton(c) ==
    /\ inEvent = 0
    /\ mounted[c]
    /\ isEditMode
    /\ ~\E r \in BagToSet(inflight) : r.card = c /\ r.alive
    /\ RunPluginSend(c, FALSE, FALSE)
    /\ UNCHANGED <<isEditMode, plugin, mounted, isRunning, rIsRunning, intervalRef, result,
                   timer, inEvent>>
    /\ UNCHANGED <<runVars, dbVars, hostVars>>

\* An unmount without the cleanup effect: the timers stay armed.
TimersAfterUnmountLeak(cs) == timer

\* The cleanup of the unmount effect, for every card of the set cs: the timer
\* intervalRef.current names is cleared; the instances and their state are gone.
TimersAfterUnmount(cs) ==
    [t \in (1..MaxTimers) |->
        IF \E c \in cs : intervalRef[c] = t THEN NoTimer ELSE timer[t]]

\* The requests in flight of the cards cs belong to instances that are gone.
OrphanRequests(cs) ==
    LET Orphan(r) == IF r.card \in cs THEN [r EXCEPT !.alive = FALSE] ELSE r
        image == {Orphan(r) : r \in BagToSet(inflight)}
    IN [s \in image |-> CountIn(inflight, {r \in BagToSet(inflight) : Orphan(r) = s})]

\* The Edit/Done button with the cards kept mounted and left as they are.
ToggleEditModeInPlace ==
    /\ inEvent = 0
    /\ isEditMode' = ~isEditMode
    /\ UNCHANGED <<plugin, mounted, isRunning, rIsRunning, intervalRef, result, timer,
                   inflight, inEvent>>
    /\ UNCHANGED <<runVars, dbVars, hostVars>>

\* The Edit/Done button of HomeComponent: setIsEditMode(!isEditMode). The
\* cards are rendered under DndContext in edit mode and under a plain div
\* otherwise, so React unmounts every card and mounts a new instance.
ToggleEditMode ==
    /\ inEvent = 0
    /\ isEditMode' = ~isEditMode
    /\ LET cs == {c \in Cards : mounted[c]}
       IN /\ timer' = TimersAfterUnmount(cs)
          /\ inflight' = OrphanRequests(cs)
          /\ intervalRef' = [c \in Cards |-> IF c \in cs THEN 0 ELSE intervalRef[c]]
          /\ isRunning' = [c \in Cards |-> IF c \in cs THEN FALSE ELSE isRunning[c]]
          /\ rIsRunning' = [c \in Cards |-> IF c \in cs THEN FALSE ELSE rIsRunning[c]]
          /\ result' = [c \in Cards |-> IF c \in cs THEN NoBody ELSE result[c]]
    /\ UNCHANGED <<plugin, mounted, inEvent>>
    /\ UNCHANGED <<runVars, dbVars, hostVars>>

\* The card is removed from the page (its plugin was deleted, the route left).
Unmount(c) ==
    /\ inEvent = 0
    /\ mounted[c]
    /\ mounted' = [mounted EXCEPT ![c] = FALSE]
    /\ timer' = TimersAfterUnmount({c})
    /\ inflight' = OrphanRequests({c})
    /\ intervalRef' = [intervalRef EXCEPT ![c] = 0]
    /\ isRunning' = [isRunning EXCEPT ![c] = FALSE]
    /\ rIsRunning' = [rIsRunning EXCEPT ![c] = FALSE]
    /\ result' = [result EXCEPT ![c] = NoBody]
    /\ UNCHANGED <<isEditMode, plugin, inEvent>>
    /\ UNCHANGED <<runVars, dbVars, hostVars>>

\* A timer callback that skips the firing while a request of its card is
\* still pending.
TimerFireSkipsPending(t) ==
    /\ inEvent = 0
    /\ timer[t].armed
    /\ timer[t].elapsed = timer[t].period
    /\ ~\E r \in BagToSet(inflight) : r.card = timer[t].card
    /\ RunPluginSend(timer[t].card, TRUE, TRUE)
    /\ timer' = [timer EXCEPT ![t].elapsed = 0]
    /\ UNCHANGED <<isEditMode, plugin, mounted, isRunning, rIsRunning, intervalRef, result,
                   inEvent>>
    /\ UNCHANGED <<runVars, dbVars, hostVars>>

\* A firing of the interval timer t: its callback calls runPlugin(plugin).
TimerFire(t) ==
    /\ inEvent = 0
    /\ timer[t].armed
    /\ timer[t].elapsed = timer[t].period
    /\ RunPluginSend(timer[t].card, TRUE, TRUE)
    /\ timer' = [timer EXCEPT ![t].elapsed = 0]
    /\ UNCHANGED <<isEditMode, plugin, mounted, isRunning, rIsRunning, intervalRef, result,
                   inEvent>>
    /\ UNCHANGED <<runVars, dbVars, hostVars>>

\* One second passes: no timer is due, and pending renders have been done.
Tick ==
    /\ inEvent = 0
    /\ \A c \in Cards : rIsRunning[c] = isRunning[c]
    /\ \E t \in (1..MaxTimers) : timer[t].armed
    /\ \A t \in (1..MaxTimers) : timer[t].armed => timer[t].elapsed < timer[t].period
    /\ timer' = [t \in (1..MaxTimers) |->
                    IF timer[t].armed
                    THEN [timer[t] EXCEPT !.elapsed = @ + MsPerSecond]
                    ELSE timer[t]]
    /\ UNCHANGED <<isEditMode, plugin, mounted, isRunning, rIsRunning, intervalRef, result,
                   inflight, inEvent>>
    /\ UNCHANGED <<runVars, dbVars, hostVars>>

\* Handlers.RunPlugin receives request r: the id parses, GetByID finds the
\* plugin, and the handler is inside runner.Run.
RunPluginBegin(r) ==
    /\ r.state = "sent"
    /\ Replace(r, [r EXCEPT !.state = "running"])
    /\ UNCHANGED <<isEditMode, plugin, mounted, isRunning, rIsRunning, intervalRef, result,
                   timer, inEvent>>
    /\ UNCHANGED <<runVars, dbVars, hostVars>>

\* runner.Run returns for the code the store held and the handler answers.
RunPluginEnd(r, code) ==
    /\ r.state = "running"
    /\ Replace(r, [r EXCEPT !.state = "responded",
                            !.resp = RunPluginResponse(RunSequential(code))])
    /\ UNCHANGED <<isEditMode, plugin, mounted, isRunning, rIsRunning, intervalRef, result,
                   timer, inEvent>>
    /\ UNCHANGED <<runVars, dbVars, hostVars>>

\* The fetch promise of r resolves with the Response (whatever its status):
\* onSuccess does setResult(await data.text()).
FetchResolves(r) ==
    /\ inEvent = 0
    /\ r.state = "responded"
    /\ Settle(r)
    /\ result' = IF r.alive THEN [result EXCEPT ![r.card] = r.resp.body] ELSE result
    /\ UNCHANGED <<isEditMode, plugin, mounted, isRunning, rIsRunning, intervalRef,
                   timer, inEvent>>
    /\ UNCHANGED <<runVars, dbVars, hostVars>>

\* The fetch promise of r rejects (the server cannot be reached): onError
\* shows the toast and, if (isRunning), calls stopContinuousRun().
FetchRejects(r) ==
    /\ inEvent = 0
    /\ r.state = "sent"
    /\ Settle(r)
    /\ IF r.alive /\ rIsRunning[r.card]
       THEN StopContinuousRun(r.card)
       ELSE UNCHANGED <<timer, intervalRef, isRunning>>
    /\ UNCHANGED <<isEditMode, plugin, mounted, rIsRunning, result, inEvent>>
    /\ UNCHANGED <<runVars, dbVars, hostVars>>

\* A page with one card, showing plugin 1.
InitCard ==
    /\ InitCardState
    /\ mounted = [c \in Cards |-> c = 1]
    /\ plugin \in {f \in [Cards -> UNION {PluginConfig(c) : c \in Cards}] :
                     /\ f[1] \in PluginConfig(1)
                     /\ f[2] = [id |-> 2, run_continuously |-> FALSE, interval_seconds |-> 0]}
    /\ InitRunState
    /\ InitStore
    /\ InitHost

NextCard ==
    \/ \E c \in Cards : HandleCardClick(c)
    \/ \E c \in Cards : StopButton(c)
    \/ FlushSync
    \/ \E c \in Cards : Render(c)
    \/ \E c \in Cards : RunButton(c)
    \/ ToggleEditMode
    \/ \E c \in Cards : Unmount(c)
    \/ \E t \in (1..MaxTimers) : TimerFire(t)
    \/ Tick
    \/ \E r \in BagToSet(inflight) : RunPluginBegin(r)
    \/ \E r \in BagToSet(inflight), code \in StoredCodes : RunPluginEnd(r, code)
    \/ \E r \in BagToSet(inflight) : FetchResolves(r)
    \/ \E r \in BagToSet(inflight) : FetchRejects(r)

SpecCard == InitCard /\ [][NextCard]_vars

\* ------------------------------------------------------- a page of two cards

\* Number of run requests in flight at one time on the page of two cards.
MaxPairReqs == 2

\* HomeComponent outside edit mode with two plugins, both set up for
\* continuous running every second: two mounted SortablePluginCard instances.
InitPair ==
    /\ InitCardState
    /\ mounted = [c \in Cards |-> TRUE]
    /\ plugin = [c \in Cards |->
                   [id |-> c, run_continuously |-> TRUE, interval_seconds |-> 1]]
    /\ InitRunState
    /\ InitStore
    /\ InitHost

\* The bound on the requests in flight on the page of two cards.
PairCap == BagCardinality(inflight') <= MaxPairReqs

\* The steps of the two cards while the page stays outside edit mode.
NextPair ==
    \/ \E c \in Cards : HandleCardClick(c) /\ PairCap
    \/ \E c \in Cards : StopButton(c) /\ PairCap
    \/ FlushSync /\ PairCap
    \/ \E c \in Cards : Render(c) /\ PairCap
    \/ \E c \in Cards : Unmount(c) /\ PairCap
    \/ \E t \in (1..MaxTimers) : TimerFire(t) /\ PairCap
    \/ Tick /\ PairCap
    \/ \E r \in BagToSet(inflight) : RunPluginBegin(r) /\ PairCap
    \/ \E r \in BagToSet(inflight), code \in StoredCodes : RunPluginEnd(r, code) /\ PairCap
    \/ \E r \in BagToSet(inflight) : FetchResolves(r) /\ PairCap
    \/ \E r \in BagToSet(inflight) : FetchRejects(r) /\ PairCap

SpecPair == InitPair /\ [][NextPair]_vars

\* ------------------------------------------- Handlers.RunPlugin and the store

\* The id parameters of POST /api/plugins/:id/run, as characters.
Params == {<<"1">>, <<"2">>, <<"3">>, <<"+", "2">>, <<"-", "1">>, <<"1", "x">>}

\* The value of a decimal digit, -1 for any other character.
Digit(ch) ==
    CASE ch = "0" -> 0 [] ch = "1" -> 1 [] ch = "2" -> 2 [] ch = "3" -> 3 [] ch = "4" -> 4
      [] ch = "5" -> 5 [] ch = "6" -> 6 [] ch = "7" -> 7 [] ch = "8" -> 8 [] ch = "9" -> 9
      [] OTHER -> -1

RECURSIVE ParseDigits(_, _)
ParseDigits(str, acc) ==
    IF str = <<>> THEN [ok |-> TRUE, n |-> acc]
    ELSE IF Digit(Head(str)) < 0 THEN [ok |-> FALSE, n |-> 0]
    ELSE ParseDigits(Tail(str), acc * 10 + Digit(Head(str)))

\* strconv.Atoi: an optional sign and then digits only, at least one.
Atoi(str) ==
    LET signed == str # <<>> /\ Head(str) \in {"+", "-"}
        body == IF signed THEN Tail(str) ELSE str
        r == ParseDigits(body, 0)
    IN IF body = <<>> \/ ~r.ok THEN [ok |-> FALSE, n |-> 0]
       ELSE [ok |-> TRUE, n |-> IF signed /\ Head(str) = "-" THEN 0 - r.n ELSE r.n]

\* An error that is only its text.
TextErr(msg) == [kind |-> msg, cause |-> "", output |-> <<>>]

\* c.Status(status).JSON(fiber.Map{"error": msg})
ErrorResponse(status, msg) == [status |-> status, body |-> JsonError(TextErr(msg))]

\* What Runner.Run(id, code) can return to the handler: the result of the
\* script, or the error of a failed write, or of a bun that cannot be started.
RunOutcomes(code) ==
    {RunSequential(code),
     [text |-> <<>>, err |-> WriteErr("no space left on device")],
     RunResult(<<>>, "executable file not found")}

\* A run request as the server receives it.
NewRequest(param) ==
    [state |-> "sent", param |-> param, id |-> 0, code |-> <<>>, nRun |-> 0,
     run |-> NoRet, resp |-> NoResp]

\* RunPlugin calling Run whatever Atoi and GetByID returned.
RunPluginUntilRunUnchecked(st, r) ==
    LET a == Atoi(r.param)
        g == GetByID(st, a.n)
    IN [r EXCEPT !.state = "running", !.id = a.n, !.code = g.plugin.code,
                 !.nRun = @ + 1]

\* RunPlugin up to its call of h.runner.Run: Atoi of the parameter (400 on an
\* error), store.GetByID (404 on sql.ErrNoRows), then Run(id, plugin.Code).
RunPluginUntilRun(st, r) ==
    LET a == Atoi(r.param)
        g == GetByID(st, a.n)
    IN IF ~a.ok
       THEN [r EXCEPT !.state = "responded",
                      !.resp = ErrorResponse(400, "Invalid plugin ID")]
       ELSE IF g.err = ErrNoRows
       THEN [r EXCEPT !.state = "responded",
                      !.resp = ErrorResponse(404, "Plugin not found")]
       ELSE [r EXCEPT !.state = "running", !.id = a.n, !.code = g.plugin.code,
                      !.nRun = @ + 1]

\* A client sends POST /api/plugins/<param>/run.
PostRun(param) ==
    /\ BagCardinality(inflight) < MaxHttpReqs
    /\ inflight' = inflight (+) SetToBag({NewRequest(param)})
    /\ UNCHANGED <<isEditMode, plugin, mounted, isRunning, rIsRunning, intervalRef, result,
                   timer, inEvent>>
    /\ UNCHANGED <<runVars, dbVars, hostVars>>

\* RunPlugin handles request r up to its answer or its call of Run.
RunPluginCall(r) ==
    /\ r.state = "sent"
    /\ Replace(r, RunPluginUntilRun(store, r))
    /\ UNCHANGED <<isEditMode, plugin, mounted, isRunning, rIsRunning, intervalRef, result,
                   timer, inEvent>>
    /\ UNCHANGED <<runVars, dbVars, hostVars>>

\* RunPlugin when GetByID fails with an error other than sql.ErrNoRows (the
\* database cannot be read): 500 with the error text, Run is not called.
RunPluginStoreFails(r) ==
    /\ r.state = "sent"
    /\ Atoi(r.param).ok
    /\ Replace(r, [r EXCEPT !.state = "responded",
                            !.resp = ErrorResponse(500, "sql: database is closed")])
    /\ UNCHANGED <<isEditMode, plugin, mounted, isRunning, rIsRunning, intervalRef, result,
                   timer, inEvent>>
    /\ UNCHANGED <<runVars, dbVars, hostVars>>

\* A run handler that deletes the row of a plugin whose run failed.
RunPluginAnswerDropsFailed(r, res) ==
    /\ r.state = "running"
    /\ Replace(r, [r EXCEPT !.state = "responded", !.run = res,
                            !.resp = RunPluginResponse(res)])
    /\ store' = IF res.err # NilErr THEN [store EXCEPT ![r.id] = NoRow] ELSE store
    /\ UNCHANGED <<isEditMode, plugin, mounted, isRunning, rIsRunning, intervalRef, result,
                   timer, inEvent>>
    /\ UNCHANGED <<runVars, hostVars>>

\* Run returns res to RunPlugin, which answers.
RunPluginAnswer(r, res) ==
    /\ r.state = "running"
    /\ Replace(r, [r EXCEPT !.state = "responded", !.run = res,
                            !.resp = RunPluginResponse(res)])
    /\ UNCHANGED <<isEditMode, plugin, mounted, isRunning, rIsRunning, intervalRef, result,
                   timer, inEvent>>
    /\ UNCHANGED <<runVars, dbVars, hostVars>>

\* The client has the response of r.
Deliver(r) ==
    /\ r.state = "responded"
    /\ Settle(r)
    /\ UNCHANGED <<isEditMode, plugin, mounted, isRunning, rIsRunning, intervalRef, result,
                   timer, inEvent>>
    /\ UNCHANGED <<runVars, dbVars, hostVars>>

\* PluginStore.Delete(id) by another request: the row is gone (no row is
\* affected, and sql.ErrNoRows returned, when there was none).
Delete(id) ==
    /\ store' = [store EXCEPT ![id] = NoRow]
    /\ UNCHANGED <<runVars, cardVars, hostVars>>

\* PluginStore.UpdateCode(id, ...) by another request: the row of id gets the
\* new values (no row is affected when there is none).
UpdateCode(id, row) ==
    /\ store' = IF store[id] # NoRow THEN [store EXCEPT ![id] = row] ELSE store
    /\ UNCHANGED <<runVars, cardVars, hostVars>>

InitHandler == InitRunState /\ InitCardsIdle /\ InitStore /\ InitHost

NextHandler ==
    \/ \E param \in Params : PostRun(param)
    \/ \E r \in BagToSet(inflight) : RunPluginCall(r)
    \/ \E r \in BagToSet(inflight) : RunPluginStoreFails(r)
    \/ \E r \in BagToSet(inflight) : \E res \in RunOutcomes(r.code) : RunPluginAnswer(r, res)
    \/ \E r \in BagToSet(inflight) : Deliver(r)
    \/ \E id \in PluginIds : Delete(id)
    \/ \E id \in PluginIds, row \in StoredRows : UpdateCode(id, row)

SpecHandler == InitHandler /\ [][NextHandler]_vars

\* ----------------------------------------------------------- LoadSettings

MaxLoads == 2

\* The port of defaultSettings().
DefaultPort == 3004

\* A file's bytes as the tokens encoding/json's scanner sees: punctuation,
\* the literal null, a string, a number (its characters), any other word.
Tok(kind, text) == [kind |-> kind, text |-> text]

JsonString(str) == Tok("string", <<str>>)

\* A value that can be a member's value: null, a string, or a number, which
\* is -?(0|[1-9][0-9]*).
ScalarOk(tok) ==
    \/ tok.kind \in {"null", "string"}
    \/ /\ tok.kind = "number"
       /\ LET text == tok.text
              body == IF text # <<>> /\ Head(text) = "-" THEN Tail(text) ELSE text
          IN /\ body # <<>>
             /\ \A i \in 1..Len(body) : Digit(body[i]) >= 0
             /\ Len(body) > 1 => body[1] # "0"

\* members := string ":" scalar ("," string ":" scalar)* "}"
RECURSIVE MembersOk(_)
MembersOk(toks) ==
    /\ Len(toks) >= 4
    /\ toks[1].kind = "string" /\ toks[2].kind = ":" /\ ScalarOk(toks[3])
    /\ \/ toks[4].kind = "}" /\ Len(toks) = 4
       \/ toks[4].kind = "," /\ MembersOk(SubSeq(toks, 5, Len(toks)))

\* checkValid: the bytes are one JSON value and nothing after it.
CheckValid(toks) ==
    \/ Len(toks) = 1 /\ ScalarOk(toks[1])
    \/ Len(toks) = 2 /\ toks[1].kind = "[" /\ toks[2].kind = "]"
    \/ Len(toks) = 2 /\ toks[1].kind = "{" /\ toks[2].kind = "}"
    \/ Len(toks) > 2 /\ toks[1].kind = "{" /\ MembersOk(Tail(toks))

\* The object's members are decoded in order into the Settings value acc =
\* [err, Port]: the key "port" takes a number, null leaves the field alone, a
\* string is an UnmarshalTypeError (decoding goes on); other keys are skipped.
RECURSIVE DecodeMembers(_, _)
DecodeMembers(toks, acc) ==
    IF toks = <<>> \/ toks[1].kind = "}" THEN acc
    ELSE LET key == toks[1].text[1]
             val == toks[3]
             next == IF key # "port" \/ val.kind = "null" THEN acc
                     ELSE IF val.kind = "number"
                          THEN [acc EXCEPT !.Port = Atoi(val.text).n]
                          ELSE [acc EXCEPT !.err = TRUE]
             rest == IF toks[4].kind = "," THEN SubSeq(toks, 5, Len(toks))
                     ELSE SubSeq(toks, 4, Len(toks))
         IN DecodeMembers(rest, next)

\* json.Unmarshal(b, &s) with `var s *Settings`: [err, nil, Port]. A syntax
\* error leaves s alone; the literal null sets the pointer s to nil and is no
\* error; an object allocates a Settings; any other value is a type error.
Unmarshal(toks) ==
    IF ~CheckValid(toks) THEN [err |-> TRUE, nil |-> TRUE, Port |-> 0]
    ELSE IF toks[1].kind = "null" THEN [err |-> FALSE, nil |-> TRUE, Port |-> 0]
    ELSE IF toks[1].kind # "{" THEN [err |-> TRUE, nil |-> TRUE, Port |-> 0]
    ELSE LET d == DecodeMembers(Tail(toks), [err |-> FALSE, Port |-> 0])
         IN [err |-> d.err, nil |-> FALSE, Port |-> d.Port]

\* The decimal digits of n >= 0.
RECURSIVE Digits(_)
Digits(n) ==
    LET ch == <<"0", "1", "2", "3", "4", "5", "6", "7", "8", "9">>
    IN IF n < 10 THEN <<ch[n + 1]>> ELSE Append(Digits(n \div 10), ch[(n % 10) + 1])

\* An int as encoding/json writes it.
Itoa(n) == IF n < 0 THEN <<"-">> \o Digits(0 - n) ELSE Digits(n)

\* json.MarshalIndent(&s, "", "\t") of a *Settings s = [nil, Port].
MarshalIndent(s) ==
    IF s.nil THEN <<Tok("null", <<>>)>>
    ELSE <<Tok("{", <<>>), JsonString("port"), Tok(":", <<>>), Tok("number", Itoa(s.Port)),
           Tok("}", <<>>)>>

\* What settings.json can hold when LoadSettings is called.
SettingsContents ==
    {<<>>,
     <<Tok("null", <<>>)>>,
     <<Tok("{", <<>>), Tok("}", <<>>)>>,
     <<Tok("[", <<>>), Tok("]", <<>>)>>,
     <<Tok("number", <<"8", "0">>)>>,
     <<Tok("word", <<"invalid">>), Tok("word", <<"json">>)>>,
     <<Tok("{", <<>>), JsonString("port"), Tok(":", <<>>), Tok("number", <<"8", "0">>),
       Tok("}", <<>>)>>,
     <<Tok("{", <<>>), JsonString("port"), Tok(":", <<>>), Tok("number", <<"-", "1">>),
       Tok("}", <<>>)>>,
     <<Tok("{", <<>>), JsonString("port"), Tok(":", <<>>), Tok("number", <<"0", "8">>),
       Tok("}", <<>>)>>,
     <<Tok("{", <<>>), JsonString("port"), Tok(":", <<>>), JsonString("80"), Tok("}", <<>>)>>,
     <<Tok("{", <<>>), JsonString("port"), Tok(":", <<>>), Tok("null", <<>>), Tok("}", <<>>)>>,
     <<Tok("{", <<>>), JsonString("host"), Tok(":", <<>>), JsonString("x"), Tok("}", <<>>)>>,
     <<Tok("{", <<>>), JsonString("port"), Tok(":", <<>>), Tok("number", <<"8", "0">>),
       Tok(",", <<>>), JsonString("port"), Tok(":", <<>>), Tok("number", <<"9", "0">>),
       Tok("}", <<>>)>>,
     <<Tok("{", <<>>), JsonString("port"), Tok(":", <<>>), Tok("number", <<"8", "0">>),
       Tok("}", <<>>), Tok("}", <<>>)>>}

\* os.WriteFile("settings.json", j, 0666) of writeSettings, whose error its
\* callers drop: a directory cannot be opened for writing, a missing file is
\* created when the working directory allows it, a file is truncated and
\* written when its mode allows it; on a full disk it stays truncated.
WriteFile(f, j, full) ==
    IF f.kind = "dir" \/ ~f.writable THEN f
    ELSE [kind |-> "file",
          readable |-> IF f.kind = "absent" THEN TRUE ELSE f.readable,
          writable |-> TRUE,
          content |-> IF full THEN <<>> ELSE j]

\* The return statement LoadSettings takes for the file f: after a failed
\* Stat, for a file that is not regular, after a failed Open, a failed
\* ReadAll, a failed Unmarshal, or the last one.
LoadPath(f, readErr) ==
    IF f.kind = "absent" THEN "stat"
    ELSE IF f.kind # "file" THEN "mode"
    ELSE IF ~f.readable THEN "open"
    ELSE IF readErr THEN "read"
    ELSE IF Unmarshal(f.content).err THEN "unmarshal"
    ELSE "s"

\* The *Settings LoadSettings returns for the file f: defaultSettings() on
\* every early return, otherwise the s that Unmarshal left.
LoadResult(f, readErr) ==
    IF LoadPath(f, readErr) # "s"
    THEN [nil |-> FALSE, Port |-> DefaultPort]
    ELSE [nil |-> Unmarshal(f.content).nil, Port |-> Unmarshal(f.content).Port]

\* LoadSettings(): every path ends in writeSettings(s), the os.WriteFile of
\* json.MarshalIndent(&s), for the value s it returns.
LoadSettings ==
    /\ loaded.calls < MaxLoads
    /\ \E readErr, full \in BOOLEAN :
          LET s == LoadResult(settingsFile, readErr)
          IN /\ loaded' = [calls |-> loaded.calls + 1,
                           via |-> LoadPath(settingsFile, readErr),
                           nil |-> s.nil, Port |-> s.Port]
             /\ settingsFile' = WriteFile(settingsFile, MarshalIndent(s), full)
    /\ UNCHANGED <<runVars, cardVars, dbVars, schema, tx, initdb, nextId, lastCall, trayPc,
                   clicks, opened>>

\* settings.json is absent, a directory, or a file of some mode and content.
InitSettings ==
    /\ settingsFile \in
          {[kind |-> "absent", readable |-> FALSE, writable |-> w, content |-> <<>>] :
              w \in BOOLEAN}
          \cup {[kind |-> "dir", readable |-> TRUE, writable |-> TRUE, content |-> <<>>]}
          \cup {[kind |-> "file", readable |-> r, writable |-> w, content |-> c] :
                  r \in BOOLEAN, w \in BOOLEAN, c \in SettingsContents}
    /\ loaded = NotLoaded
    /\ InitSchemaIdle
    /\ InitCrudIdle
    /\ InitTray
    /\ InitRunState
    /\ InitCardsIdle
    /\ InitStore

SpecSettings == InitSettings /\ [][LoadSettings]_vars

\* ----------------------------------------------------------------- InitDB

MaxInits == 2

\* tx.Exec(migration) on the plugins table with the columns cols: CREATE TABLE
\* IF NOT EXISTS leaves an existing table alone; ALTER TABLE ADD COLUMN fails
\* without the table and for a column that exists.
ExecMigration(stmt, cols) ==
    IF stmt = "CREATE TABLE IF NOT EXISTS plugins"
    THEN [ok |-> TRUE, columns |-> IF cols = {} THEN BaseColumns ELSE cols]
    ELSE LET col == IF stmt = "ADD COLUMN run_continuously" THEN "run_continuously"
                    ELSE "interval_seconds"
         IN IF cols = {} \/ col \in cols
            THEN [ok |-> FALSE, columns |-> cols]
            ELSE [ok |-> TRUE, columns |-> cols \cup {col}]

\* SELECT COALESCE(MAX(version), 0) FROM schema_version
MaxVersion(versions) ==
    IF versions = {} THEN 0 ELSE CHOOSE v \in versions : \A w \in versions : w <= v

\* The loop condition with the last migration left out.
MoreMigrationsButLast(version) == version < Len(migrations)

\* The loop condition of InitDB: version <= len(migrations).
MoreMigrations(version) == version <= Len(migrations)

\* A failed statement whose transaction is committed all the same.
AfterFailureCommit(db, work) == work

\* tx.Rollback() after a failed statement: the database is as it was before
\* the transaction.
AfterFailure(db, work) == db

\* InitDB returns err (nil for "").
InitDBReturns(err) ==
    initdb' = [initdb EXCEPT !.pc = "returned", !.err = err]

\* InitDB is called; getCurrentVersion succeeds and the loop starts at
\* currentVersion + 1.
InitDBCall ==
    /\ initdb.pc \in {"idle", "returned"}
    /\ initdb.calls < MaxInits
    /\ initdb' = [pc |-> "loop", calls |-> initdb.calls + 1,
                  version |-> MaxVersion(schema.versions) + 1,
                  started |-> MaxVersion(schema.versions) + 1,
                  err |-> "", prevErr |-> initdb.err]
    /\ UNCHANGED <<schema, tx>>
    /\ UNCHANGED <<runVars, cardVars, dbVars, settingsFile, loaded, nextId, lastCall,
                   trayPc, clicks, opened>>

\* InitDB is called and getCurrentVersion fails.
GetCurrentVersionFails ==
    /\ initdb.pc \in {"idle", "returned"}
    /\ initdb.calls < MaxInits
    /\ initdb' = [pc |-> "returned", calls |-> initdb.calls + 1, version |-> 0,
                  started |-> 0, err |-> "failed to get current schema version",
                  prevErr |-> initdb.err]
    /\ UNCHANGED <<schema, tx>>
    /\ UNCHANGED <<runVars, cardVars, dbVars, settingsFile, loaded, nextId, lastCall,
                   trayPc, clicks, opened>>

\* The loop test fails: every migration is applied, InitDB returns nil.
InitDBDone ==
    /\ initdb.pc = "loop"
    /\ ~MoreMigrations(initdb.version)
    /\ InitDBReturns("")
    /\ UNCHANGED <<schema, tx>>
    /\ UNCHANGED <<runVars, cardVars, dbVars, settingsFile, loaded, nextId, lastCall,
                   trayPc, clicks, opened>>

\* db.Begin()
TxBegin ==
    /\ initdb.pc = "loop"
    /\ MoreMigrations(initdb.version)
    /\ tx' = [open |-> TRUE, work |-> schema]
    /\ initdb' = [initdb EXCEPT !.pc = "exec"]
    /\ UNCHANGED schema
    /\ UNCHANGED <<runVars, cardVars, dbVars, settingsFile, loaded, nextId, lastCall,
                   trayPc, clicks, opened>>

\* db.Begin() fails.
TxBeginFails ==
    /\ initdb.pc = "loop"
    /\ MoreMigrations(initdb.version)
    /\ InitDBReturns("failed to start transaction")
    /\ UNCHANGED <<schema, tx>>
    /\ UNCHANGED <<runVars, cardVars, dbVars, settingsFile, loaded, nextId, lastCall,
                   trayPc, clicks, opened>>

\* tx.Exec(migration): on an error tx.Rollback() and the return.
TxExecMigration ==
    /\ initdb.pc = "exec"
    /\ LET r == ExecMigration(migrations[initdb.version], tx.work.columns)
       IN IF r.ok
          THEN /\ tx' = [tx EXCEPT !.work.columns = r.columns,
                                   !.work.log = Append(@, initdb.version)]
               /\ initdb' = [initdb EXCEPT !.pc = "record"]
               /\ UNCHANGED schema
          ELSE /\ schema' = AfterFailure(schema, tx.work)
               /\ tx' = NoTx
               /\ InitDBReturns("failed to apply migration")
    /\ UNCHANGED <<runVars, cardVars, dbVars, settingsFile, loaded, nextId, lastCall,
                   trayPc, clicks, opened>>

\* tx.Exec(migration) fails for a reason outside the statement (disk, lock).
TxExecMigrationFails ==
    /\ initdb.pc = "exec"
    /\ schema' = AfterFailure(schema, tx.work)
    /\ tx' = NoTx
    /\ InitDBReturns("failed to apply migration")
    /\ UNCHANGED <<runVars, cardVars, dbVars, settingsFile, loaded, nextId, lastCall,
                   trayPc, clicks, opened>>

\* INSERT INTO schema_version (version, applied_at): the version is the
\* primary key, so a row that exists makes the statement fail.
TxRecord ==
    /\ initdb.pc = "record"
    /\ IF initdb.version \notin tx.work.versions
       THEN /\ tx' = [tx EXCEPT !.work.versions = @ \cup {initdb.version}]
            /\ initdb' = [initdb EXCEPT !.pc = "commit"]
            /\ UNCHANGED schema
       ELSE /\ schema' = AfterFailure(schema, tx.work)
            /\ tx' = NoTx
            /\ InitDBReturns("failed to record migration")
    /\ UNCHANGED <<runVars, cardVars, dbVars, settingsFile, loaded, nextId, lastCall,
                   trayPc, clicks, opened>>

\* The INSERT fails for a reason outside the statement.
TxRecordFails ==
    /\ initdb.pc = "record"
    /\ schema' = AfterFailure(schema, tx.work)
    /\ tx' = NoTx
    /\ InitDBReturns("failed to record migration")
    /\ UNCHANGED <<runVars, cardVars, dbVars, settingsFile, loaded, nextId, lastCall,
                   trayPc, clicks, opened>>

\* tx.Commit(): the migration and its row become the database's; version++.
TxCommit ==
    /\ initdb.pc = "commit"
    /\ schema' = tx.work
    /\ tx' = NoTx
    /\ initdb' = [initdb EXCEPT !.pc = "loop", !.version = @ + 1]
    /\ UNCHANGED <<runVars, cardVars, dbVars, settingsFile, loaded, nextId, lastCall,
                   trayPc, clicks, opened>>

\* tx.Commit() fails: nothing of the transaction is the database's.
TxCommitFails ==
    /\ initdb.pc = "commit"
    /\ tx' = NoTx
    /\ InitDBReturns("failed to commit migration")
    /\ UNCHANGED schema
    /\ UNCHANGED <<runVars, cardVars, dbVars, settingsFile, loaded, nextId, lastCall,
                   trayPc, clicks, opened>>

\* A database at any schema version InitDB leaves, or one of a build older
\* than schema_version: a plugins table and no version row.
InitSchema ==
    /\ schema \in {MigratedTo(k) : k \in 0..Len(migrations)}
                  \cup {[MigratedTo(0) EXCEPT !.columns = BaseColumns],
                        [MigratedTo(0) EXCEPT !.columns = MigratedTo(2).columns]}
    /\ tx = NoTx
    /\ initdb = InitDBIdle
    /\ InitSettingsIdle
    /\ InitCrudIdle
    /\ InitTray
    /\ InitRunState
    /\ InitCardsIdle
    /\ InitStore

NextSchema ==
    \/ InitDBCall
    \/ GetCurrentVersionFails
    \/ InitDBDone
    \/ TxBegin
    \/ TxBeginFails
    \/ TxExecMigration
    \/ TxExecMigrationFails
    \/ TxRecord
    \/ TxRecordFails
    \/ TxCommit
    \/ TxCommitFails

SpecSchema == InitSchema /\ [][NextSchema]_vars

\* --------------------------------------------- the store and its handlers

MaxPlugins == 3

MaxCalls == 2

\* The ids the plugins table can hold.
StoreIds == 1..MaxPlugins

\* PluginStore.Delete without its RowsAffected test.
DeleteResultIgnoresRows(st, id) ==
    [store |-> IF id \in DOMAIN st THEN [st EXCEPT ![id] = NoRow] ELSE st, err |-> ""]

\* PluginStore.Delete(id): DELETE FROM plugins WHERE id = ?, and sql.ErrNoRows
\* when no row was affected.
DeleteResult(st, id) ==
    IF GetByID(st, id).err = ErrNoRows
    THEN [store |-> st, err |-> ErrNoRows]
    ELSE [store |-> [st EXCEPT ![id] = NoRow], err |-> ""]

\* PluginStore.UpdateCode(id, ...): UPDATE plugins SET ... WHERE id = ?, and
\* sql.ErrNoRows when no row was affected.
UpdateCodeResult(st, id, row) ==
    IF GetByID(st, id).err = ErrNoRows
    THEN [store |-> st, err |-> ErrNoRows]
    ELSE [store |-> [st EXCEPT ![id] = row], err |-> ""]

\* PluginStore.Create(plugin): the INSERT gives the row the next id of the
\* AUTOINCREMENT sequence, which LastInsertId returns.
CreateResult(st, next, row) ==
    [store |-> [st EXCEPT ![next] = row], id |-> next, err |-> ""]

\* A handler's call number n with its outcome.
Call(handler, param, req, id, storeErr, status, error, variable) ==
    [n |-> lastCall.n + 1, handler |-> handler, param |-> param, req |-> req, id |-> id,
     storeErr |-> storeErr, status |-> status, error |-> error, variable |-> variable]

\* Handlers.DeletePlugin for DELETE /api/plugins/<param>; dbErr: the DELETE
\* statement itself fails.
DeletePlugin(param, dbErr) ==
    /\ lastCall.n < MaxCalls
    /\ LET a == Atoi(param)
           d == DeleteResult(store, a.n)
       IN IF ~a.ok
          THEN /\ lastCall' = Call("DeletePlugin", param, NoReq, 0, "", 400,
                                   "Invalid plugin ID", "")
               /\ UNCHANGED store
          ELSE IF dbErr
          THEN /\ lastCall' = Call("DeletePlugin", param, NoReq, a.n, "database error", 500,
                                   "database error", "")
               /\ UNCHANGED store
          ELSE /\ lastCall' = Call("DeletePlugin", param, NoReq, a.n, d.err,
                                   IF d.err = ErrNoRows THEN 404 ELSE 200,
                                   IF d.err = ErrNoRows THEN "Plugin not found" ELSE "", "")
               /\ store' = d.store
    /\ UNCHANGED <<nextId, runVars, cardVars, settingsFile, loaded, schema, tx, initdb,
                   trayPc, clicks, opened>>

\* Handlers.UpdatePluginData for PUT /api/plugins/<param>/data with the form
\* values row: store.UpdateCode and then store.GetByID.
UpdatePluginData(param, row, dbErr) ==
    /\ lastCall.n < MaxCalls
    /\ LET a == Atoi(param)
           u == UpdateCodeResult(store, a.n, row)
       IN IF ~a.ok
          THEN /\ lastCall' = Call("UpdatePluginData", param, NoReq, 0, "", 400,
                                   "Invalid plugin ID", "")
               /\ UNCHANGED store
          ELSE IF dbErr
          THEN /\ lastCall' = Call("UpdatePluginData", param, NoReq, a.n, "database error",
                                   500, "database error", "")
               /\ UNCHANGED store
          ELSE /\ lastCall' = Call("UpdatePluginData", param, NoReq, a.n, u.err,
                                   IF u.err = ErrNoRows THEN 404 ELSE 200,
                                   IF u.err = ErrNoRows THEN "Plugin not found" ELSE "", "")
               /\ store' = u.store
    /\ UNCHANGED <<nextId, runVars, cardVars, settingsFile, loaded, schema, tx, initdb,
                   trayPc, clicks, opened>>

\* ------------------------------------------------ CreatePluginFromTemplate

\* list.json: the ids of the templates.
TemplateIds == {"test-template"}

\* The source file of the template, as words: two declarations and a call.
TemplateSource ==
    <<"const", "TEST_VAR", "=", "\"test\"", ";", "const", "TEST_NUM", "=", "4455", ";",
      "run", "(", "TEST_VAR", ",", "TEST_NUM", ")", ";">>

\* stringValue: fmt.Sprintf("%d") of a whole number, "%q" of a string.
StringValue(v) ==
    IF v.type = "number" THEN v.text ELSE <<"\"">> \o v.text \o <<"\"">>

\* The end j of a match of (const\s+KEY\s*=\s*)([^;]+)(;) that starts at i,
\* or 0: the words const KEY =, one or more words that are not ";", and ";".
MatchEnd(content, key, i) ==
    IF /\ i + 4 <= Len(content)
       /\ content[i] = "const" /\ content[i + 1] = key /\ content[i + 2] = "="
       /\ content[i + 3] # ";"
       /\ \E j \in (i + 4)..Len(content) : content[j] = ";"
    THEN CHOOSE j \in (i + 4)..Len(content) :
            /\ content[j] = ";"
            /\ \A k \in (i + 4)..(j - 1) : content[k] # ";"
    ELSE 0

\* re.MatchString(content)
MatchString(content, key) ==
    \E i \in 1..Len(content) : MatchEnd(content, key, i) # 0

\* re.ReplaceAllString(content, "${1}" + stringValue + "${3}"), from word i on.
RECURSIVE ReplaceAllString(_, _, _, _)
ReplaceAllString(content, key, value, i) ==
    IF i > Len(content) THEN <<>>
    ELSE IF MatchEnd(content, key, i) # 0
         THEN SubSeq(content, i, i + 2) \o value \o <<";">>
                 \o ReplaceAllString(content, key, value, MatchEnd(content, key, i) + 1)
         ELSE <<content[i]>> \o ReplaceAllString(content, key, value, i + 1)

\* The loop `for key, value := range body.Variables` taking the keys in the
\* order keys: [ok, content, variable], the variable being the key whose
\* pattern did not match the content as the earlier keys left it.
RECURSIVE ProcessVariables(_, _, _)
ProcessVariables(content, variables, keys) ==
    IF keys = <<>> THEN [ok |-> TRUE, content |-> content, variable |-> ""]
    ELSE IF ~MatchString(content, Head(keys))
         THEN [ok |-> FALSE, content |-> content, variable |-> Head(keys)]
         ELSE ProcessVariables(
                  ReplaceAllString(content, Head(keys), StringValue(variables[Head(keys)]), 1),
                  variables, Tail(keys))

\* The orders in which a range over a map with the keys S can take them.
KeyOrders(S) ==
    {o \in [1..Cardinality(S) -> S] : \A i, j \in 1..Cardinality(S) : o[i] = o[j] => i = j}

\* The request headers a client sends when it names neither field.
NoHeaders == [run_continuously |-> "", interval_seconds |-> <<>>]

\* The mutationFn of AddPluginDialog: POST /api/plugins/templates/create with
\* the header Content-Type alone and the form's values in the JSON body.
DialogRequest(templateId, variables, run_continuously, interval_seconds) ==
    [templateId |-> templateId, variables |-> variables,
     body |-> [run_continuously |-> run_continuously,
               interval_seconds |-> interval_seconds],
     headers |-> NoHeaders]

\* The maps of variables a request can carry; the values are a number, a
\* string, and a string whose text is a declaration.
VariableMaps ==
    {<<>>}
    \cup {("TEST_NUM" :> [type |-> "number", text |-> <<"9999">>])}
    \cup {("NONEXISTENT_VAR" :> [type |-> "string", text |-> <<"new value">>])}
    \cup {("TEST_VAR" :> v) @@ ("NONEXISTENT_VAR" :> [type |-> "number", text |-> <<"9999">>]) :
             v \in {[type |-> "number", text |-> <<"9999">>],
                    [type |-> "string", text |-> <<"new value">>],
                    [type |-> "string",
                     text |-> <<"const", "NONEXISTENT_VAR", "=", "1", ";">>]}}

\* The create requests: the dialog's, and those of a client that sends the
\* two fields as request headers.
CreateRequests ==
    {DialogRequest(t, vs, rc[1], rc[2]) :
        t \in TemplateIds \cup {"missing"}, vs \in VariableMaps,
        rc \in {<<FALSE, 0>>, <<TRUE, 2>>}}
    \cup {[templateId |-> "test-template", variables |-> <<>>,
           body |-> [run_continuously |-> FALSE, interval_seconds |-> 0],
           headers |-> h] :
             h \in {[run_continuously |-> "true", interval_seconds |-> <<"2">>],
                    [run_continuously |-> "1", interval_seconds |-> <<"1", "x">>]}}

\* Handlers.CreatePluginFromTemplate for the request req, the variables taken
\* in the order keys; dbErr: store.Create fails.
CreatePluginFromTemplate(req, keys, dbErr) ==
    /\ lastCall.n < MaxCalls
    /\ nextId \in StoreIds
    /\ LET p == ProcessVariables(TemplateSource, req.variables, keys)
           runContinuously == req.headers.run_continuously = "true"
           intervalVal == Atoi(req.headers.interval_seconds)
           row == [code |-> p.content, run_continuously |-> runContinuously,
                   interval_seconds |-> IF intervalVal.ok THEN intervalVal.n ELSE 0]
           c == CreateResult(store, nextId, row)
       IN IF req.templateId \notin TemplateIds
          THEN /\ lastCall' = Call("CreatePluginFromTemplate", <<>>, req, 0, "", 404,
                                   "Template not found", "")
               /\ UNCHANGED <<store, nextId>>
          ELSE IF ~p.ok
          THEN /\ lastCall' = Call("CreatePluginFromTemplate", <<>>, req, 0, "", 400,
                                   "Variable not found in template", p.variable)
               /\ UNCHANGED <<store, nextId>>
          ELSE IF dbErr
          THEN /\ lastCall' = Call("CreatePluginFromTemplate", <<>>, req, 0, "database error",
                                   500, "database error", "")
               /\ UNCHANGED <<store, nextId>>
          ELSE /\ lastCall' = Call("CreatePluginFromTemplate", <<>>, req, c.id, "", 201, "", "")
               /\ store' = c.store
               /\ nextId' = nextId + 1
    /\ UNCHANGED <<runVars, cardVars, settingsFile, loaded, schema, tx, initdb, trayPc,
                   clicks, opened>>

\* The plugins table with a row under every id of PluginIds and none above.
InitCrud ==
    /\ store = [id \in StoreIds |->
                  IF id \in PluginIds
                  THEN [code |-> <<"B">>, run_continuously |-> FALSE, interval_seconds |-> 0]
                  ELSE NoRow]
    /\ InitCrudIdle
    /\ InitSettingsIdle
    /\ InitSchemaIdle
    /\ InitTray
    /\ InitRunState
    /\ InitCardsIdle

NextCrud ==
    \/ \E param \in Params, dbErr \in BOOLEAN : DeletePlugin(param, dbErr)
    \/ \E param \in Params, row \in StoredRows, dbErr \in BOOLEAN :
          UpdatePluginData(param, row, dbErr)
    \/ \E req \in CreateRequests, dbErr \in BOOLEAN :
          \E keys \in KeyOrders(DOMAIN req.variables) :
             CreatePluginFromTemplate(req, keys, dbErr)

SpecCrud == InitCrud /\ [][NextCrud]_vars

\* ---------------------------------------------------------------- initTray

MaxClicks == 2

\* The goroutine of the item gets to its receive `<-item.ClickedCh`.
TrayReceive(item) ==
    /\ trayPc[item] = "go"
    /\ trayPc' = [trayPc EXCEPT ![item] = "recv"]
    /\ UNCHANGED <<clicks, opened>>
    /\ UNCHANGED <<runVars, cardVars, dbVars, settingsFile, loaded, schema, tx, initdb,
                   nextId, lastCall>>

\* The user clicks the item (the menu is there until systray.Quit()): systray
\* offers the click on the item's ClickedCh, an unbuffered channel, without
\* blocking. A goroutine waiting in the receive takes it; otherwise the click
\* is dropped.
Click(item) ==
    /\ trayPc["quit"] # "exit"
    /\ clicks[item] < MaxClicks
    /\ clicks' = [clicks EXCEPT ![item] = @ + 1]
    /\ trayPc' = IF trayPc[item] = "recv" THEN [trayPc EXCEPT ![item] = "act"] ELSE trayPc
    /\ UNCHANGED opened
    /\ UNCHANGED <<runVars, cardVars, dbVars, settingsFile, loaded, schema, tx, initdb,
                   nextId, lastCall>>

\* The goroutine runs the item's action (openURL, or systray.Quit()) and
\* ends: the func literal has no loop.
TrayAct(item) ==
    /\ trayPc[item] = "act"
    /\ opened' = [opened EXCEPT ![item] = @ + 1]
    /\ trayPc' = [trayPc EXCEPT ![item] = "exit"]
    /\ UNCHANGED clicks
    /\ UNCHANGED <<runVars, cardVars, dbVars, settingsFile, loaded, schema, tx, initdb,
                   nextId, lastCall>>

InitTrayMenu ==
    /\ InitTray
    /\ InitSettingsIdle
    /\ InitSchemaIdle
    /\ InitCrudIdle
    /\ InitRunState
    /\ InitCardsIdle
    /\ InitStore

NextTray ==
    \/ \E item \in MenuItems : TrayReceive(item)
    \/ \E item \in MenuItems : Click(item)
    \/ \E item \in MenuItems : TrayAct(item)

\* The Go scheduler runs every goroutine that can run; the user need not
\* click.
SpecTray ==
    /\ InitTrayMenu
    /\ [][NextTray]_vars
    /\ \A item \in MenuItems : WF_vars(TrayReceive(item)) /\ WF_vars(TrayAct(item))

\* ------------------------------------------------------------ Run: claims

Started(p) == pc[p] # "idle"

Returned(p) == pc[p] = "returned"

\* cmd.CombinedOutput() has returned in invocation p.
CmdDone(p) == pc[p] \in {"defer", "return", "returned"} /\ nStart[p] >= 1

\* The bun process of invocation p has read its script.
ChildHasRead(p) == nProc[p] >= 1 /\ pc[p] \in {"wait", "defer", "return", "returned"}

\* The file of invocation p is written and its bun process has not exited.
ChildPending(p) == written[p] /\ pc[p] \in {"start", "child", "wait"}

\* No other invocation that was ever called has the id of p.
OwnId(p) == \A q \in Procs \ {p} : Started(q) => rid[q] # rid[p]

\* C1: whenever a Run invocation returns (success or error, other invocations
\* overlapping or not), <tempDir>/<id>.ts does not exist at that moment.
C1_NoTempFileAtReturn ==
    [][\A p \in Procs :
          (pc[p] = "return" /\ pc'[p] = "returned")
              => ~disk'[<<"bundeck-plugins", rid[p], "ts">>].exists]_vars

\* C2: overlapping Run invocations of one id are serialized or namespaced: the
\* bun process of each invocation reads exactly the code this invocation
\* wrote, and nobody else overwrites or deletes the file of an invocation
\* whose bun process has not exited.
C2_SameIdRunsIsolated ==
    /\ [](\A p \in Procs : ChildHasRead(p) => childSrc[p] = File(rcode[p]))
    /\ [][\A p \in Procs :
            (ChildPending(p) /\ pc'[p] = pc[p])
                => disk'[<<"bundeck-plugins", rid[p], "ts">>]
                     = disk[<<"bundeck-plugins", rid[p], "ts">>]]_vars

\* C3: invocations with pairwise distinct ids do not interfere: a step of an
\* invocation changes only the file <id>.ts of its own id, the bun process
\* of an invocation whose id nobody shares reads the code of that invocation,
\* and such an invocation returns the output of its own code (as a value when
\* the code exits 0, inside the error otherwise).
C3_DistinctIdsIsolated ==
    /\ [](\A p \in Procs :
            OwnId(p) =>
              /\ ChildHasRead(p) => childSrc[p] = File(rcode[p])
              /\ (Returned(p) /\ nProc[p] = 1) =>
                    LET own == Exec(rcode[p], <<>>)
                    IN IF own.exit = 0
                       THEN ret[p] = [text |-> own.out, err |-> NilErr]
                       ELSE /\ ret[p].err.kind = "failed to run plugin"
                            /\ ret[p].err.output = own.out)
    /\ [][\A path \in Paths :
            disk'[path] # disk[path]
                => \E p \in Procs :
                      /\ pc'[p] # pc[p]
                      /\ path = <<"bundeck-plugins", rid[p], "ts">>]_vars

\* Two invocations with distinct ids and distinct codes have their bun
\* processes running at the same time.
C3_Witness ==
    /\ pc[1] = "wait" /\ pc[2] = "wait"
    /\ rid[1] # rid[2] /\ rcode[1] # rcode[2]

\* C4: when the bun process cannot be started or exits non-zero, Run returns
\* an empty string and an error that holds the process error and the output
\* captured from the process; the output is not returned as a value.
C4_FailureCarriesErrorAndOutput ==
    \A p \in Procs :
        (CmdDone(p) /\ (nProc[p] = 0 \/ Bun(childSrc[p]).exit # 0)) =>
            /\ ret[p].text = <<>>
            /\ ret[p].err # NilErr
            /\ ret[p].err.cause = cmdErr[p] /\ cmdErr[p] # ""
            /\ ret[p].err.output = cmdOut[p]
            /\ nProc[p] = 1 => cmdOut[p] = Bun(childSrc[p]).out

\* A Run whose script threw has returned; its error holds the process output.
C4_Witness ==
    \E p \in Procs :
        /\ Returned(p) /\ nProc[p] = 1
        /\ cmdErr[p] = "exit status 1"
        /\ ret[p].err.output = <<"TypeError">>

\* C5: Run returns success exactly when the temp file was written and the bun
\* process exited with code 0, and then returns what the process emitted on
\* stdout+stderr, in order and untrimmed.
C5_SuccessIffExitZero ==
    \A p \in Procs :
        Returned(p) =>
            /\ ret[p].err = NilErr
                 <=> (written[p] /\ nProc[p] = 1 /\ Bun(childSrc[p]).exit = 0)
            /\ ret[p].err = NilErr => ret[p].text = Bun(childSrc[p]).out

\* A Run of the two-line script returned both lines, newlines included.
C5_Witness ==
    \E p \in Procs :
        /\ Returned(p) /\ rcode[p] = <<"A", "B">>
        /\ ret[p] = [text |-> <<"A", "\n", "B", "\n">>, err |-> NilErr]

\* C6: when os.WriteFile fails, Run goes straight to its return with the
\* write error and starts no bun process.
C6_WriteFailureSpawnsNothing ==
    \A p \in Procs :
        (~written[p] /\ pc[p] \notin {"idle", "open", "write"}) =>
            /\ pc[p] \in {"return", "returned"}
            /\ ret[p].err.kind = "failed to write temp file"
            /\ ret[p].text = <<>>
            /\ nStart[p] = 0 /\ nProc[p] = 0

\* A Run whose write failed has returned.
C6_Witness ==
    \E p \in Procs :
        Returned(p) /\ ~written[p] /\ ret[p].err.cause = "no space left on device"

\* C7 as stated: an invocation spawns at most one bun process, and exactly
\* one whenever the temp file was written.
C7_ExactlyOneProcess ==
    \A p \in Procs :
        /\ nProc[p] <= 1
        /\ (Returned(p) /\ written[p]) => nProc[p] = 1

\* C7, amended: an invocation calls cmd.CombinedOutput() at most once and
\* exactly once whenever the temp file was written, never again after a
\* failure; that call starts exactly one bun process unless the start itself
\* fails, and then none.
C7_ExactlyOneSpawnAttempt ==
    \A p \in Procs :
        /\ nStart[p] <= 1 /\ nProc[p] <= nStart[p]
        /\ ~written[p] => nStart[p] = 0
        /\ (Returned(p) /\ written[p]) =>
              /\ nStart[p] = 1
              /\ nProc[p] = IF cmdErr[p] = "executable file not found" THEN 0 ELSE 1

\* A Run whose bun process failed has returned, having started one process.
C7_Witness ==
    \E p \in Procs :
        /\ Returned(p) /\ written[p]
        /\ cmdErr[p] = "exit status 1" /\ nStart[p] = 1 /\ nProc[p] = 1

\* ----------------------------------------------------------- card: claims

\* Card c shows a plugin set up for continuous running.
Continuous(c) == plugin[c].run_continuously /\ plugin[c].interval_seconds > 0

\* This step is a click that activates card c, which is Idle.
ActivatesIdle(c) ==
    /\ inEvent = 0 /\ inEvent' = c
    /\ mounted[c] /\ ~isEditMode /\ Continuous(c)
    /\ ~isRunning[c] /\ ~rIsRunning[c]

\* This step is a firing of the armed timer t.
Fires(t) ==
    /\ timer[t].armed /\ timer'[t].armed /\ inEvent = 0 /\ inEvent' = 0
    /\ timer[t].elapsed = timer[t].period /\ timer'[t].elapsed = 0

\* C8: activating an Idle card whose plugin has run_continuously and
\* interval_seconds = n > 0 makes it Running, issues exactly one invocation in
\* that step (none of it by a timer) and arms one timer of period n seconds;
\* a timer-issued invocation appears only when an armed timer of the card has
\* run its full period, and every firing issues exactly one invocation.
C8_StartRunsOnceAndArmsTimer ==
    /\ [](\A c \in Cards : \A t \in ArmedTimers(timer, c) :
            /\ timer[t].period = plugin[c].interval_seconds * 1000
            /\ timer[t].elapsed <= timer[t].period
            /\ isRunning[c])
    /\ [][\A c \in Cards :
            /\ ActivatesIdle(c) =>
                 /\ isRunning'[c]
                 /\ Issued(inflight', c) = Issued(inflight, c) + 1
                 /\ IssuedByTimer(inflight', c) = IssuedByTimer(inflight, c)
                 /\ \E t \in 1..MaxTimers :
                       /\ ArmedTimers(timer', c) = {t}
                       /\ intervalRef'[c] = t
                       /\ timer'[t].elapsed = 0
                       /\ timer'[t].period = plugin[c].interval_seconds * 1000
            /\ IssuedByTimer(inflight', c) > IssuedByTimer(inflight, c) =>
                 /\ \E t \in ArmedTimers(timer, c) : Fires(t)
                 /\ IssuedByTimer(inflight', c) = IssuedByTimer(inflight, c) + 1
            /\ \A t \in ArmedTimers(timer, c) :
                 Fires(t) => /\ Issued(inflight', c) = Issued(inflight, c) + 1
                             /\ IssuedByTimer(inflight', c) = IssuedByTimer(inflight, c) + 1
                             /\ isRunning[c]]_vars

\* The card of the 2 s plugin is Running; its immediate invocation and one
\* issued by its timer are in flight, and the timer runs its next period.
C8_Witness ==
    /\ isRunning[1] /\ plugin[1].interval_seconds = 2
    /\ Issued(inflight, 1) = 2 /\ IssuedByTimer(inflight, 1) = 1
    /\ \E t \in ArmedTimers(timer, 1) : timer[t].elapsed = 1000

\* The request r is one whose failure its callback learns of: the fetch is
\* rejected, or the run endpoint answered with the Runner's error (500).
FailedRun(r) ==
    \/ r.state = "sent"
    \/ r.state = "responded" /\ r.resp.status = 500

\* C9: when an invocation issued by a Running card (the immediate one or a
\* tick) fails, also as the run endpoint's 500 response, then as its callback
\* runs the card becomes Idle, its timer is disarmed and nothing is issued.
C9_FailureStopsCard ==
    [][\A r \in BagToSet(inflight) :
          (r.cont /\ r.alive /\ FailedRun(r) /\ inflight' = inflight (-) SetToBag({r}))
              => /\ ~isRunning'[r.card]
                 /\ ArmedTimers(timer', r.card) = {}
                 /\ intervalRef'[r.card] = 0]_vars

\* C10: a card has at most one armed interval timer in every reachable state,
\* the one intervalRef names, also while a click event in which start ran
\* more than once has not been rendered.
C10_AtMostOneTimer ==
    \A c \in Cards :
        /\ Cardinality(ArmedTimers(timer, c)) <= 1
        /\ ArmedTimers(timer, c) \subseteq {intervalRef[c]}

\* Start has run twice in one click event (the card was already Running at
\* the second call, the render not yet done): two immediate invocations,
\* one armed timer.
C10_Witness ==
    /\ inEvent = 1 /\ isRunning[1] /\ ~rIsRunning[1]
    /\ Issued(inflight, 1) = 2 /\ IssuedByTimer(inflight, 1) = 0
    /\ \A r \in BagToSet(inflight) : r.state = "sent" /\ r.cont
    /\ Cardinality(ArmedTimers(timer, 1)) = 1

\* This step is a click on card c, outside edit mode, whose handler takes the
\* stop branch for a card that is Running.
StopsRunning(c) ==
    /\ inEvent' = c /\ mounted[c] /\ ~isEditMode
    /\ plugin[c].run_continuously /\ rIsRunning[c] /\ isRunning[c]

\* C11: a card is Running or has an armed timer only if its plugin has
\* run_continuously and interval_seconds > 0; a click on the card of a plugin
\* with run_continuously and interval_seconds = 0 issues no invocation, arms
\* no timer and leaves the card Idle.
C11_RunningOnlyIfContinuous ==
    /\ [](\A c \in Cards :
            (isRunning[c] \/ ArmedTimers(timer, c) # {}) => Continuous(c))
    /\ [][\A c \in Cards :
            (/\ inEvent' = c /\ mounted[c] /\ ~isEditMode
             /\ plugin[c].run_continuously /\ plugin[c].interval_seconds = 0)
                => /\ Issued(inflight', c) = Issued(inflight, c)
                   /\ ~isRunning'[c]
                   /\ ArmedTimers(timer', c) = {}
                   /\ intervalRef'[c] = 0]_vars

\* The card of the plugin with run_continuously and interval 0 was clicked:
\* it is Idle and nothing was sent.
C11_Witness ==
    /\ plugin[1].run_continuously /\ plugin[1].interval_seconds = 0
    /\ inEvent = 1 /\ ~isEditMode /\ ~isRunning[1]
    /\ inflight = EmptyBag

\* C12: a user stop of a Running card (card click or Stop button) leaves it
\* Idle with no armed timer and issues nothing; an Idle card has no armed
\* timer, and an invocation of the card is issued only by a firing of its
\* armed timer while Running or in a step of a user event on the card.
C12_StopDisarms ==
    /\ [](\A c \in Cards : ~isRunning[c] => ArmedTimers(timer, c) = {})
    /\ [][\A c \in Cards :
            /\ StopsRunning(c) =>
                  /\ ~isRunning'[c]
                  /\ ArmedTimers(timer', c) = {}
                  /\ intervalRef'[c] = 0
                  /\ inflight' = inflight
            /\ Issued(inflight', c) > Issued(inflight, c) =>
                  \/ /\ isRunning[c]
                     /\ \E t \in ArmedTimers(timer, c) : Fires(t)
                  \/ /\ IssuedByTimer(inflight', c) = IssuedByTimer(inflight, c)
                     /\ inEvent' = c \/ isEditMode]_vars

\* A Running card was stopped by the user while an invocation its timer
\* issued is still in flight: Idle, not yet rendered, no timer.
C12_Witness ==
    /\ inEvent = 1 /\ ~isRunning[1] /\ rIsRunning[1]
    /\ ArmedTimers(timer, 1) = {}
    /\ IssuedByTimer(inflight, 1) >= 1

\* C13: the step that enters edit mode leaves every card Idle with no armed
\* timer; while the page is in edit mode no card is Running, no timer is
\* armed and no timer-issued invocation is added.
C13_EditModeStopsCards ==
    /\ [](isEditMode => \A c \in Cards :
                            ~isRunning[c] /\ ArmedTimers(timer, c) = {})
    /\ [][/\ (~isEditMode /\ isEditMode') =>
                \A c \in Cards : /\ ~isRunning'[c]
                                  /\ ArmedTimers(timer', c) = {}
                                  /\ intervalRef'[c] = 0
          /\ isEditMode =>
                \A c \in Cards :
                    IssuedByTimer(inflight', c) <= IssuedByTimer(inflight, c)]_vars

\* The page is in edit mode and an invocation that the timer of card 1 issued
\* before is still in flight: the card was Running when edit mode was entered.
C13_Witness ==
    /\ isEditMode /\ mounted[1]
    /\ \E r \in BagToSet(inflight) : r.card = 1 /\ r.byTimer /\ ~r.alive

\* C14: a card that is not mounted has no armed timer, and a timer-issued
\* invocation is added only for a mounted card.
C14_NoTimerAfterUnmount ==
    /\ [](\A c \in Cards : ~mounted[c] => ArmedTimers(timer, c) = {})
    /\ [][\A c \in Cards :
            IssuedByTimer(inflight', c) > IssuedByTimer(inflight, c) => mounted[c]]_vars

\* Card 1 was unmounted while Running: an invocation of its timer is still in
\* flight and nothing is armed.
C14_Witness ==
    /\ ~mounted[1]
    /\ \E r \in BagToSet(inflight) : r.card = 1 /\ r.byTimer /\ ~r.alive
    /\ \A t \in 1..MaxTimers : ~timer[t].armed

\* ------------------------------------------------------ two cards: claims

\* What belongs to card c: its state, its armed timers, its requests.
CardView(c) ==
    <<mounted[c], isRunning[c], rIsRunning[c], intervalRef[c], result[c],
      [t \in ArmedTimers(timer, c) |-> timer[t]],
      [r \in {x \in BagToSet(inflight) : x.card = c} |-> CopiesIn(r, inflight)]>>

\* This step is an operation of card d: a user event on it, its start, stop
\* or auto-stop, a firing of its timer, a step of one of its requests, its
\* render or its teardown.
StepOf(d) ==
    \/ inEvent' # inEvent /\ d \in {inEvent, inEvent'}
    \/ mounted'[d] # mounted[d]
    \/ isRunning'[d] # isRunning[d] \/ rIsRunning'[d] # rIsRunning[d]
    \/ {x \in BagToSet(inflight') : x.card = d} # {x \in BagToSet(inflight) : x.card = d}
    \/ Issued(inflight', d) # Issued(inflight, d)

\* C15: an operation of one card (click, start, stop, auto-stop on a rejected
\* request, timer firing, request progress, render, teardown) leaves what
\* belongs to every other card unchanged; and whatever the other card has in
\* flight, an Idle card can start (which sends its run request) and a due
\* timer can fire, as long as the page's bound on requests is not reached.
C15_CardsIndependent ==
    /\ [][\A c \in Cards : \A d \in Cards \ {c} :
            StepOf(d) => CardView(c)' = CardView(c)]_vars
    /\ [](\A c \in Cards :
            (/\ inEvent = 0 /\ mounted[c] /\ ~isEditMode
             /\ BagCardinality(inflight) < MaxPairReqs) =>
                /\ (~rIsRunning[c] /\ ~isRunning[c]) =>
                      ENABLED (/\ HandleCardClick(c)
                               /\ Issued(inflight', c) = Issued(inflight, c) + 1)
                /\ \A t \in ArmedTimers(timer, c) :
                      timer[t].elapsed = timer[t].period => ENABLED TimerFire(t))

\* Both cards are Running, each with its own armed timer, and each has an
\* invocation in flight; the one of card 1 was issued by its timer.
C15_Witness ==
    /\ isRunning[1] /\ isRunning[2]
    /\ intervalRef[1] # 0 /\ intervalRef[2] # 0 /\ intervalRef[1] # intervalRef[2]
    /\ IssuedByTimer(inflight, 1) = 1 /\ Issued(inflight, 2) = 1

\* ------------------------------------------------------- RunPlugin: claims

\* The id of the request r names a row of the store st.
Found(st, r) ==
    /\ Atoi(r.param).ok
    /\ Atoi(r.param).n \in DOMAIN st
    /\ st[Atoi(r.param).n] # NoRow

\* C16: a request whose Run returned an error is answered 500 with that
\* error's text as the JSON error; one whose Run succeeded is answered 200
\* with exactly the text Run returned; a 200 answer is never given unless Run
\* was called and returned no error.
C16_RunErrorIs500 ==
    \A r \in BagToSet(inflight) :
        r.state = "responded" =>
            /\ (r.nRun = 1 /\ r.run.err # NilErr) =>
                  r.resp = [status |-> 500,
                            body |-> [kind |-> "json", text |-> <<>>, error |-> r.run.err]]
            /\ (r.nRun = 1 /\ r.run.err = NilErr) =>
                  r.resp = [status |-> 200,
                            body |-> [kind |-> "text", text |-> r.run.text, error |-> NilErr]]
            /\ r.resp.status = 200 => (r.nRun = 1 /\ r.run.err = NilErr)

\* The server holds the 500 answer of a run whose script threw and the 200
\* answer of a run that printed a line.
C16_Witness ==
    /\ \E r \in BagToSet(inflight) :
          /\ r.state = "responded" /\ r.resp.status = 500
          /\ r.resp.body.error.kind = "failed to run plugin"
          /\ r.resp.body.error.output = <<"TypeError">>
    /\ \E r \in BagToSet(inflight) :
          /\ r.state = "responded" /\ r.resp.status = 200
          /\ r.resp.body.text = <<"B", "\n">>

\* C17: Run is called at most once per request, and only in the step in
\* which the parameter parsed as an integer and the store held a row for it,
\* with that integer and the code of that row; a parameter that is no integer
\* is answered 400, an integer without a row 404 (500 if the store cannot be
\* read), and none of these calls Run.
C17_RunOnlyAfterLookup ==
    /\ [](\A r \in BagToSet(inflight) :
            /\ r.nRun <= 1
            /\ r.nRun = 1 <=> r.state = "running" \/ r.resp.status = 200 \/ r.run # NoRet
            /\ r.nRun = 1 => Atoi(r.param).ok /\ r.id = Atoi(r.param).n
            /\ r.resp.status \in {400, 404} => r.nRun = 0
            /\ r.state = "responded" /\ ~Atoi(r.param).ok => r.resp.status = 400)
    /\ [][\A r \in BagToSet(inflight) : \A n \in BagToSet(inflight') :
            (r.state = "sent" /\ n # r
             /\ inflight' = (inflight (-) SetToBag({r})) (+) SetToBag({n})) =>
                /\ n.nRun = 1 =>
                      /\ Found(store, r)
                      /\ n.state = "running"
                      /\ n.id = Atoi(r.param).n
                      /\ n.code = store[n.id].code
                /\ ~Atoi(r.param).ok =>
                      n.state = "responded" /\ n.resp.status = 400 /\ n.nRun = 0
                /\ (Atoi(r.param).ok /\ ~Found(store, r)) =>
                      /\ n.state = "responded" /\ n.nRun = 0
                      /\ n.resp.status \in {404, 500}
                      /\ n.resp.status = 500 =>
                            n.resp.body.error.kind = "sql: database is closed"]_vars

\* Run is being executed for "+2", parsed as id 2, with the code row 2 held
\* after an update, while a request for the deleted plugin 1 was answered 404.
C17_Witness ==
    /\ \E r \in BagToSet(inflight) :
          /\ r.state = "running" /\ r.param = <<"+", "2">> /\ r.id = 2
          /\ r.code = <<"throw">> /\ r.nRun = 1
    /\ \E r \in BagToSet(inflight) :
          /\ r.param = <<"1">> /\ r.resp.status = 404 /\ r.nRun = 0

\* C18: a step of a run request (received, looked up, run, answered,
\* delivered) leaves every row of the store as it was.
C18_RunLeavesStore ==
    [][inflight' # inflight => store' = store]_vars

\* A run of plugin 2 failed and was answered 500, and a run of plugin 1
\* succeeded; both rows are in the store with the code that was run.
C18_Witness ==
    /\ \E r \in BagToSet(inflight) :
          /\ r.state = "responded" /\ r.resp.status = 500 /\ r.nRun = 1 /\ r.id = 2
          /\ store[2] # NoRow /\ store[2].code = r.code
    /\ \E r \in BagToSet(inflight) :
          /\ r.state = "responded" /\ r.resp.status = 200 /\ r.id = 1
          /\ store[1] # NoRow /\ store[1].code = r.code

\* ----------------------------------------------------- NewRunner: claims

\* C19: a NewRunner call made when the scratch directory exists succeeds,
\* yields the path <TempDir>/bundeck-plugins and leaves the directory and its
\* files as they are; once a Runner exists a further call returns the same
\* Runner; and no step (of Run or of NewRunner) removes the directory.
C19_NewRunnerIdempotent ==
    /\ [](runner.err = "" =>
            tempDirEntry = "dir" /\ runner.tempDir = <<"bundeck-plugins">>)
    /\ [][/\ tempDirEntry = "dir" => tempDirEntry' = "dir"
          /\ (nNew' = nNew + 1 /\ tempDirEntry = "dir") =>
                /\ runner'.err = ""
                /\ runner'.tempDir = <<"bundeck-plugins">>
                /\ disk' = disk
          /\ (nNew' = nNew + 1 /\ runner.err = "") => runner' = runner]_vars

\* NewRunner was called a second time while a Run of the first Runner had
\* its file in the directory; later that Run returned after a failed script.
C19_Witness ==
    /\ nNew = 2 /\ runner.err = "" /\ tempDirEntry = "dir"
    /\ pc[1] = "returned" /\ cmdErr[1] = "exit status 1"

\* ------------------------------------------------- Run and its child: claims

\* The bun process of invocation p has been started and has not exited.
ChildRunning(p) == nProc[p] = 1 /\ pc[p] \in {"child", "wait"}

\* C20: Run returns only after its bun process has exited; as long as the
\* process has not exited the invocation stays where it is (no step of
\* anyone moves it on or cancels it) and the temp file of the invocation is
\* not removed.
C20_RunWaitsForChild ==
    /\ [](\A p \in Procs :
            (nProc[p] = 1 /\ pc[p] \in {"return", "returned"}) => CmdDone(p))
    /\ [][\A p \in Procs :
            ChildRunning(p) =>
               /\ pc'[p] \in {"child", "wait", "defer"}
               /\ pc'[p] = "defer" => cmdOut'[p] = Bun(childSrc[p]).out
               /\ (ChildRunning(p)' /\ disk[<<"bundeck-plugins", rid[p], "ts">>].exists)
                     => disk'[<<"bundeck-plugins", rid[p], "ts">>].exists]_vars

\* C25: the steps of one invocation come in the order write, spawn, exit of
\* the process, delete, return: a spawn attempt follows a completed write,
\* the delete follows the end of cmd.CombinedOutput() (the exit of the process
\* when one was started), and an invocation that wrote its file gets to its
\* return only through the delete, having made its spawn attempt. While the
\* process of an invocation whose id nobody shares runs, the file exists and
\* holds its code; and at most one file of an id exists.
C25_StepsInOrder ==
    /\ [](\A p \in Procs :
            /\ nStart[p] >= 1 => written[p]
            /\ (written[p] /\ pc[p] \in {"return", "returned"}) => nStart[p] = 1
            /\ (OwnId(p) /\ ChildRunning(p)) =>
                  disk[<<"bundeck-plugins", rid[p], "ts">>] = File(rcode[p]))
    /\ [](\A id \in PluginIds :
            Cardinality({path \in Paths : disk[path].exists /\ path[2] = id}) <= 1)
    /\ [][\A p \in Procs :
            /\ (pc[p] = "defer" /\ pc'[p] # "defer") =>
                  /\ CmdDone(p) /\ ~ChildRunning(p)
                  /\ pc'[p] = "return"
                  /\ ~disk'[<<"bundeck-plugins", rid[p], "ts">>].exists
            /\ (written[p] /\ pc[p] # "return" /\ pc'[p] = "return") => pc[p] = "defer"
            /\ (OwnId(p) /\ written[p] /\ pc[p] \in {"start", "child", "wait"}) =>
                  disk'[<<"bundeck-plugins", rid[p], "ts">>].exists]_vars

\* An invocation whose id nobody shares has been through all five steps: it
\* wrote, its process exited 0, the file is deleted and Run has returned.
C25_Witness ==
    \E p \in Procs :
        /\ OwnId(p) /\ Returned(p) /\ written[p] /\ nProc[p] = 1 /\ cmdErr[p] = ""
        /\ ~disk[<<"bundeck-plugins", rid[p], "ts">>].exists
        /\ \E q \in Procs \ {p} : pc[q] = "wait"

\* C26: the displayed state and the timer of a card agree. Every armed timer
\* of a card is the one its intervalRef names and the card's isRunning is
\* true; outside a click event the card is also rendered as Running. A card
\* whose isRunning is false has no armed timer, its intervalRef is clear, and
\* no step adds a timer-issued invocation of it.
C26_TimerOnlyWhileRunning ==
    /\ [](\A c \in Cards :
            /\ \A t \in ArmedTimers(timer, c) :
                  /\ intervalRef[c] = t /\ isRunning[c] /\ mounted[c]
                  /\ inEvent = 0 => rIsRunning[c]
            /\ ~isRunning[c] => (intervalRef[c] = 0 /\ ArmedTimers(timer, c) = {}))
    /\ [][\A c \in Cards :
            (~isRunning[c] \/ (inEvent = 0 /\ ~rIsRunning[c])) =>
                IssuedByTimer(inflight', c) <= IssuedByTimer(inflight, c)]_vars

\* The card is Idle and shows Not Running after a rejected fetch stopped it,
\* while an invocation its timer issued earlier is still in flight.
C26_Witness ==
    /\ inEvent = 0 /\ mounted[1] /\ ~isEditMode
    /\ ~isRunning[1] /\ ~rIsRunning[1] /\ intervalRef[1] = 0
    /\ \A t \in 1..MaxTimers : ~timer[t].armed
    /\ \E r \in BagToSet(inflight) : r.card = 1 /\ r.byTimer /\ r.alive

\* C27: a due timer fires whatever became of the card's earlier invocations
\* (as long as the bound on requests in flight leaves room), and its firing
\* adds a new request for the card's plugin id next to the ones in flight.
C27_TimerFiresRegardless ==
    /\ [](\A t \in 1..MaxTimers :
            (/\ inEvent = 0 /\ timer[t].armed /\ timer[t].elapsed = timer[t].period
             /\ BagCardinality(inflight) < MaxReqs) => ENABLED TimerFire(t))
    /\ [][\A t \in 1..MaxTimers :
            Fires(t) =>
               \E r \in BagToSet(inflight') :
                  /\ r.card = timer[t].card /\ r.pid = plugin[timer[t].card].id
                  /\ r.byTimer /\ r.state = "sent"
                  /\ inflight' = inflight (+) SetToBag({r})]_vars

\* Two requests of the one card are inside runner.Run for the same plugin id
\* at the same time: the one issued at the start and one issued by the timer.
C27_Witness ==
    \E r, s \in BagToSet(inflight) :
        /\ r.card = 1 /\ s.card = 1 /\ r.pid = s.pid
        /\ r.state = "running" /\ s.state = "running"
        /\ ~r.byTimer /\ s.byTimer /\ r.alive /\ s.alive
        /\ isRunning[1]

\* -------------------------------------------------------- settings: claims

\* C21: every LoadSettings call returns a non-nil Settings, whatever
\* settings.json is: the stored port when the file holds valid settings (and
\* reading it does not fail), and the default port 3004 when the file is
\* missing, not a regular file, unreadable, or its content cannot be parsed.
C21_LoadSettingsNeverNil ==
    [][loaded'.calls > loaded.calls =>
          /\ ~loaded'.nil
          /\ \A n \in {80, DefaultPort} :
                (/\ settingsFile.kind = "file" /\ settingsFile.readable
                 /\ settingsFile.content = MarshalIndent([nil |-> FALSE, Port |-> n])
                 /\ loaded'.via # "read") => loaded'.Port = n
          /\ (\/ settingsFile.kind # "file"
              \/ ~settingsFile.readable
              \/ Unmarshal(settingsFile.content).err) => loaded'.Port = DefaultPort]_vars

\* ---------------------------------------------------------- InitDB: claims

\* C22: when InitDB has returned nil, the highest recorded version is the
\* number of migrations and the committed migrations are 1, 2, ..., each once
\* and in ascending order, up to the last; an InitDB call on a database that
\* holds every version opens no transaction and leaves the database as it is.
C22_AllMigrationsOnce ==
    /\ []((initdb.pc = "returned" /\ initdb.err = "") =>
            /\ MaxVersion(schema.versions) = Len(migrations)
            /\ \A i \in 1..Len(schema.log) : \A j \in 1..Len(schema.log) :
                  i < j => schema.log[i] < schema.log[j]
            /\ schema.log # <<>> /\ schema.log[Len(schema.log)] = Len(migrations)
            /\ \A v \in initdb.started..Len(migrations) :
                  \E i \in 1..Len(schema.log) : schema.log[i] = v)
    /\ [][schema.versions = 1..Len(migrations) => (schema' = schema /\ ~tx'.open)]_vars

\* InitDB has returned nil twice: the first call brought the database up to
\* date, the second started past the last migration and applied nothing.
C22_Witness ==
    /\ initdb.pc = "returned" /\ initdb.err = "" /\ initdb.calls = 2 /\ initdb.prevErr = ""
    /\ initdb.started = Len(migrations) + 1
    /\ schema = MigratedTo(Len(migrations))

\* C28: a migration and its schema_version row are committed together or not
\* at all. The recorded versions are always exactly the committed migrations;
\* a step that changes the database adds the migration of the current version
\* and its row; a failure inside the transaction makes InitDB return an error
\* with the database as it was before the transaction; and an InitDB call
\* starts at the version after the highest recorded one.
C28_MigrationAtomic ==
    /\ [](/\ schema.versions = 1..Len(schema.log)
          /\ \A i \in 1..Len(schema.log) : schema.log[i] = i)
    /\ [][/\ schema' # schema =>
                /\ initdb.pc = "commit"
                /\ schema'.log = Append(schema.log, initdb.version)
                /\ schema'.versions = schema.versions \cup {initdb.version}
          /\ (initdb.pc \in {"exec", "record", "commit"} /\ initdb'.pc = "returned") =>
                /\ initdb'.err # ""
                /\ schema' = schema
                /\ ~tx'.open
          /\ (initdb'.calls > initdb.calls /\ initdb'.err = "") =>
                /\ initdb'.version = MaxVersion(schema.versions) + 1
                /\ schema' = schema]_vars

\* Recording version 2 failed in the first call, which left the database at
\* version 1; the second call started at version 2 and has returned nil.
C28_Witness ==
    /\ initdb.pc = "returned" /\ initdb.err = "" /\ initdb.calls = 2
    /\ initdb.prevErr = "failed to record migration"
    /\ initdb.started = 2
    /\ schema = MigratedTo(Len(migrations))

\* ----------------------------------------------------------- store: claims

\* This step is a call of the handler h.
Calls(h) == lastCall'.n = lastCall.n + 1 /\ lastCall'.handler = h

\* This step is a DeletePlugin or UpdatePluginData call that reached the
\* store, whose statement did not fail.
ReachesStore ==
    /\ Calls("DeletePlugin") \/ Calls("UpdatePluginData")
    /\ Atoi(lastCall'.param).ok
    /\ lastCall'.storeErr # "database error"

\* C23: Delete and UpdateCode for an id that has no row return sql.ErrNoRows,
\* which DeletePlugin and UpdatePluginData answer with 404, and leave the
\* store unchanged. After a successful Delete(id), GetByID(id) returns
\* sql.ErrNoRows and so does a second Delete(id); and an id that was given out
\* and has no row any more never gets one again.
C23_AbsentIdIsErrNoRows ==
    [][/\ (ReachesStore /\ GetByID(store, lastCall'.id).err = ErrNoRows) =>
             /\ lastCall'.storeErr = ErrNoRows
             /\ lastCall'.status = 404
             /\ store' = store
       /\ (ReachesStore /\ GetByID(store, lastCall'.id).err = "") =>
             /\ lastCall'.storeErr = ""
             /\ lastCall'.status = 200
       /\ (Calls("DeletePlugin") /\ lastCall'.status = 200) =>
             /\ GetByID(store', lastCall'.id).err = ErrNoRows
             /\ DeleteResult(store', lastCall'.id).err = ErrNoRows
             /\ DeleteResult(store', lastCall'.id).store = store'
             /\ \A id \in StoreIds \ {lastCall'.id} : store'[id] = store[id]
       /\ \A id \in StoreIds :
             (id < nextId /\ store[id] = NoRow) => store'[id] = NoRow]_vars

\* Plugin 2 was deleted, and the second DELETE /api/plugins/2 got 404 with
\* sql.ErrNoRows from the store.
C23_Witness ==
    /\ lastCall.n = 2 /\ lastCall.handler = "DeletePlugin" /\ lastCall.id = 2
    /\ lastCall.storeErr = ErrNoRows /\ lastCall.status = 404
    /\ store[2] = NoRow /\ store[1] # NoRow

\* The variables of the request that have no declaration in the template
\* source.
Undeclared(req) == {k \in DOMAIN req.variables : ~MatchString(TemplateSource, k)}

\* C24: CreatePluginFromTemplate adds a plugin only if the template id exists
\* and every variable of the request has a declaration `const NAME = ...;` in
\* the template source. An unknown template id is answered with 404, a
\* variable without a declaration with 400 and an error that names such a
\* variable, and in both cases the store is left as it was.
C24_CreateOnlyFromValidRequest ==
    [][Calls("CreatePluginFromTemplate") =>
          /\ store' # store =>
                (lastCall'.req.templateId \in TemplateIds /\ Undeclared(lastCall'.req) = {})
          /\ lastCall'.req.templateId \notin TemplateIds =>
                (lastCall'.status = 404 /\ store' = store /\ nextId' = nextId)
          /\ (lastCall'.req.templateId \in TemplateIds /\ Undeclared(lastCall'.req) # {}) =>
                /\ lastCall'.status = 400
                /\ lastCall'.variable \in Undeclared(lastCall'.req)
                /\ store' = store /\ nextId' = nextId]_vars

\* C29: a plugin created from a template by a request of the add-plugin
\* dialog is stored with the run_continuously and interval_seconds of that
\* request.
C29_DialogValuesStored ==
    [][(Calls("CreatePluginFromTemplate") /\ lastCall'.status = 201
          /\ lastCall'.req.headers = NoHeaders) =>
          /\ store'[lastCall'.id].run_continuously = lastCall'.req.body.run_continuously
          /\ store'[lastCall'.id].interval_seconds = lastCall'.req.body.interval_seconds]_vars

\* ------------------------------------------------------------ tray: claims

\* C30: every click on the Open App or the Show QR Code item is handled: for
\* every n, once the item has been clicked n times its action is eventually
\* run for the n-th time.
C30_EveryClickHandled ==
    \A item \in {"browser", "qr"} : \A n \in 1..MaxClicks :
        (clicks[item] >= n) ~> (opened[item] >= n)

====
